---- MODULE Spec2Model ----
(***************************************************************************)
(* Model of the frontmatter metadata normalizer of mdxld-workers           *)
(* (src/src/compiler/index.ts, lines 1-423): processMetadata, cloneArray,  *)
(* extractWorkerMetadata and the worker-context assembly of compile.       *)
(*                                                                         *)
(* JavaScript values are records [t, s, k, c]:                             *)
(*   t  the runtime type tag ("string", "number", "boolean", "null",       *)
(*      "undefined", "array", "object", and "throw" for a raised error),   *)
(*   s  the lexeme of a scalar (or the message of a raised error),         *)
(*   k  the own keys of an object, in iteration order,                     *)
(*   c  the elements of an array / the values of an object (c[i] is the    *)
(*      value stored under k[i]).                                          *)
(*                                                                         *)
(* The pipeline is modelled twice: on values (Spec), and on an object      *)
(* store in which every object and array is a node with an address and     *)
(* every assignment is a write to one node (HeapSpec).                     *)
(***************************************************************************)
EXTENDS Integers, Sequences, FiniteSets, TLC

VARIABLES mdxld, options, pc, processedData, metadata, workerContext, error,
          heap, roots, resultRef, metadataRef,
          input, source, thrown, bundle, console, exitCode, compileCalls,
          invocation, deployment, disk

vars == <<mdxld, options, pc, processedData, metadata, workerContext, error,
          heap, roots, resultRef, metadataRef,
          input, source, thrown, bundle, console, exitCode, compileCalls,
          invocation, deployment, disk>>

\* the compile command of the CLI and the call of compile around the
\* pipeline: the <input> argument, the source text compile is called with,
\* the error it caught, the bundle text it resolved with, the console
\* output, the exit code and the number of calls of compile
shell == <<input, source, thrown, bundle, console, exitCode, compileCalls>>

\* the calls of deployWrangler and the files of the temporary directory
deployed == <<deployment, disk>>

\* everything outside one run of the pipeline
outer == <<shell, invocation, deployed>>

\* the object store of the reference-level run and the references into it
store == <<heap, roots, resultRef, metadataRef>>

----------------------------------------------------------------------------
(* JavaScript values *)

Str(x) == [t |-> "string", s |-> x, k |-> <<>>, c |-> <<>>]

Num(x) == [t |-> "number", s |-> x, k |-> <<>>, c |-> <<>>]

Bool(x) == [t |-> "boolean", s |-> x, k |-> <<>>, c |-> <<>>]

Null == [t |-> "null", s |-> "", k |-> <<>>, c |-> <<>>]

Undefined == [t |-> "undefined", s |-> "", k |-> <<>>, c |-> <<>>]

Arr(items) == [t |-> "array", s |-> "", k |-> <<>>, c |-> items]

Obj(keys, vals) == [t |-> "object", s |-> "", k |-> keys, c |-> vals]

EmptyObj == Obj(<<>>, <<>>)

Throw(msg) == [t |-> "throw", s |-> msg, k |-> <<>>, c |-> <<>>]

IsThrow(v) == v.t = "throw"

IsArray(v) == v.t = "array"

IsObject(v) == v.t = "object"

IsString(v) == v.t = "string"

\* typeof v === 'object' : true of plain objects, of arrays and of null
TypeofObject(v) == v.t \in {"object", "array", "null"}

\* ToBoolean
Truthy(v) ==
  CASE v.t = "string" -> v.s # ""
    [] v.t = "number" -> v.s # "0"
    [] v.t = "boolean" -> v.s = "true"
    [] v.t \in {"object", "array"} -> TRUE
    [] OTHER -> FALSE

\* a || b
Or(a, b) == IF Truthy(a) THEN a ELSE b

Range(seq) == {seq[i] : i \in DOMAIN seq}

IndexNames == <<"0", "1", "2", "3", "4", "5", "6", "7", "8", "9">>

\* String(i - 1) for an array index
IndexKey(i) == IndexNames[i]

IsIndexKey(key) == key \in Range(IndexNames)

IndexOf(key) == CHOOSE i \in DOMAIN IndexNames : IndexNames[i] = key

\* position of key among the own keys of o, 0 when absent
KeyPos(o, key) ==
  IF \E i \in DOMAIN o.k : o.k[i] = key
    THEN CHOOSE i \in DOMAIN o.k : o.k[i] = key
    ELSE 0

HasKey(o, key) == KeyPos(o, key) # 0

\* o[key] / o?.key : undefined when absent or when o has no own properties
Get(o, key) == IF HasKey(o, key) THEN o.c[KeyPos(o, key)] ELSE Undefined

InsertAt(seq, i, x) == SubSeq(seq, 1, i - 1) \o <<x>> \o SubSeq(seq, i, Len(seq))

\* where a new own key goes: integer-like keys come first in ascending
\* order, every other key is appended (OrdinaryOwnPropertyKeys)
NewKeyPos(o, key) ==
  IF IsIndexKey(key)
    THEN 1 + Cardinality({i \in DOMAIN o.k :
                 IsIndexKey(o.k[i]) /\ IndexOf(o.k[i]) < IndexOf(key)})
    ELSE Len(o.k) + 1

\* o[key] = v : an existing key keeps its position
SetProp(o, key, v) ==
  IF HasKey(o, key)
    THEN [o EXCEPT !.c[KeyPos(o, key)] = v]
    ELSE [o EXCEPT !.k = InsertAt(o.k, NewKeyPos(o, key), key),
                   !.c = InsertAt(o.c, NewKeyPos(o, key), v)]

\* the keys Object.entries / object spread enumerate, in order
EntryKeys(v) ==
  CASE v.t = "object" -> v.k
    [] v.t = "array" -> [i \in DOMAIN v.c |-> IndexKey(i)]
    [] v.t = "string" -> [i \in 1..Len(v.s) |-> IndexKey(i)]
    [] OTHER -> <<>>

EntryVals(v) ==
  CASE v.t = "object" -> v.c
    [] v.t = "array" -> v.c
    [] v.t = "string" -> [i \in 1..Len(v.s) |-> Str(SubSeq(v.s, i, i))]
    [] OTHER -> <<>>

RECURSIVE SpreadFrom(_, _, _)
\* { ...target, ...src } continued from the i-th own property of src
SpreadFrom(target, src, i) ==
  IF i > Len(EntryKeys(src))
    THEN target
    ELSE SpreadFrom(SetProp(target, EntryKeys(src)[i], EntryVals(src)[i]), src, i + 1)

Spread(target, src) == SpreadFrom(target, src, 1)

RECURSIVE DeepEq(_, _)
\* deep equality: key order of objects is irrelevant, order of arrays is not
DeepEq(a, b) ==
  /\ a.t = b.t
  /\ a.s = b.s
  /\ Len(a.c) = Len(b.c)
  /\ IF a.t = "object"
       THEN /\ Range(a.k) = Range(b.k)
            /\ \A i \in DOMAIN a.k : DeepEq(a.c[i], Get(b, a.k[i]))
       ELSE \A i \in DOMAIN a.c : DeepEq(a.c[i], b.c[i])

RECURSIVE JoinFrom(_, _), StringOf(_)
JoinFrom(items, i) ==
  IF i > Len(items) THEN ""
  ELSE (IF i > 1 THEN "," ELSE "")
         \o (IF items[i].t \in {"null", "undefined"} THEN "" ELSE StringOf(items[i]).s)
         \o JoinFrom(items, i + 1)

\* String(v)
StringOf(v) ==
  CASE v.t = "string" -> v
    [] v.t \in {"number", "boolean"} -> Str(v.s)
    [] v.t = "null" -> Str("null")
    [] v.t = "undefined" -> Str("undefined")
    [] v.t = "array" -> Str(JoinFrom(v.c, 1))
    [] OTHER -> Str("[object Object]")

----------------------------------------------------------------------------
(* Key classification, compiler/index.ts lines 53-55 *)

Quotes == {"'", "\""}

FirstChar(key) == IF Len(key) = 0 THEN "" ELSE SubSeq(key, 1, 1)

LastChar(key) == IF Len(key) = 0 THEN "" ELSE SubSeq(key, Len(key), Len(key))

\* key.replace(/^(['"])(.*)\1$/, '$2'): the pattern matches a key that begins
\* and ends with the same quote character and has no line terminator between
\* them ('.' matches none)
CleanKey(key) ==
  IF /\ Len(key) >= 2 /\ FirstChar(key) \in Quotes /\ LastChar(key) = FirstChar(key)
     /\ \A i \in 2..(Len(key) - 1) : SubSeq(key, i, i) # "\n"
    THEN SubSeq(key, 2, Len(key) - 1)
    ELSE key

\* cleanKey.match(/^[@$]/)?.[0], "" when there is no match
PrefixOf(cleanKey) ==
  IF FirstChar(cleanKey) \in {"@", "$"} THEN FirstChar(cleanKey) ELSE ""

\* prefix ? cleanKey.slice(1) : cleanKey
UnprefixedKey(cleanKey) ==
  IF PrefixOf(cleanKey) # "" THEN SubSeq(cleanKey, 2, Len(cleanKey)) ELSE cleanKey

OtherPrefix(prefix) == IF prefix = "@" THEN "$" ELSE "@"
----------------------------------------------------------------------------
(* processMetadata, compiler/index.ts lines 37-112 *)

ContextKeys == {"context", "@context", "$context"}

WorkerKeys == {"worker", "@worker", "$worker"}

ListKeys == {"list", "@list", "$list"}

\* the context key without the vocab rewrite
ContextKeyVerbatim(k) == k

\* lines 85-92: the key a property of the context object is stored under
ContextKey(k) == IF k = "vocab" THEN "@vocab" ELSE k

RECURSIVE NewContextFrom(_, _, _)
\* lines 84-93, the forEach over Object.entries(contextObj) from entry i on
NewContextFrom(newContext, contextObj, i) ==
  IF i > Len(EntryKeys(contextObj))
    THEN newContext
    ELSE NewContextFrom(
           SetProp(newContext, ContextKey(EntryKeys(contextObj)[i]), EntryVals(contextObj)[i]),
           contextObj, i + 1)

\* lines 79-96: special handling of a context value
HandleContext(result, cleanKey, processedValue) ==
  IF cleanKey \in ContextKeys /\ TypeofObject(processedValue)
    THEN IF processedValue.t = "null"
           THEN Throw("Cannot convert undefined or null to object")
           ELSE SetProp(result, "context", NewContextFrom(EmptyObj, processedValue, 1))
    ELSE result

\* line 101: if (config?.name) result.name = config.name
HoistName(result, config) ==
  IF Truthy(Get(config, "name")) THEN SetProp(result, "name", Get(config, "name")) ELSE result

\* line 102: if (config?.routes) result.routes = config.routes
HoistRoutes(result, config) ==
  IF Truthy(Get(config, "routes")) THEN SetProp(result, "routes", Get(config, "routes")) ELSE result

\* lines 99-103: special handling of a worker value
HandleWorker(result, cleanKey, processedValue) ==
  IF cleanKey \in WorkerKeys
    THEN HoistRoutes(HoistName(result, processedValue), processedValue)
    ELSE result

\* the list value wrapped whatever it is
ListValueWrapped(processedValue) == Arr(<<processedValue>>)

\* line 107: Array.isArray(processedValue) ? processedValue : [processedValue]
ListValue(processedValue) ==
  IF IsArray(processedValue) THEN processedValue ELSE Arr(<<processedValue>>)

\* lines 106-108: special handling of a list value
HandleList(result, cleanKey, processedValue) ==
  IF cleanKey \in ListKeys
    THEN SetProp(result, "list", ListValue(processedValue))
    ELSE result

\* lines 65-76: the spellings the processed value is stored under
StoreSpellings(result, cleanKey, processedValue) ==
  IF PrefixOf(cleanKey) # ""
    THEN SetProp(
           SetProp(
             SetProp(result, cleanKey, processedValue),
             UnprefixedKey(cleanKey), processedValue),
           OtherPrefix(PrefixOf(cleanKey)) \o UnprefixedKey(cleanKey), processedValue)
    ELSE SetProp(result, cleanKey, processedValue)

\* lines 52-108: one iteration of the loop over Object.entries(data)
ProcessEntry(result, key, processedValue) ==
  IF IsThrow(processedValue)
    THEN processedValue
    ELSE LET cleanKey == CleanKey(key)
             stored == StoreSpellings(result, cleanKey, processedValue)
             withContext == HandleContext(stored, cleanKey, processedValue)
         IN  IF IsThrow(withContext)
               THEN withContext
               ELSE HandleList(HandleWorker(withContext, cleanKey, processedValue),
                               cleanKey, processedValue)

RECURSIVE processMetadata(_), cloneArray(_), CloneItems(_, _), ProcessEntries(_, _, _),
          ProcessEntriesReversed(_, _, _)

\* the item kept as it is unless it is an array
CloneItemShallow(item) ==
  IF IsArray(item) THEN cloneArray(item) ELSE item

\* lines 44-48: the item a cloned array holds in place of item
CloneItem(item) ==
  IF IsArray(item) THEN cloneArray(item)
  ELSE IF IsObject(item) THEN processMetadata(item)
  ELSE item

\* arr.map(...) from element i on
CloneItems(arr, i) ==
  IF i > Len(arr.c) THEN <<>> ELSE <<CloneItem(arr.c[i])>> \o CloneItems(arr, i + 1)

\* lines 43-48; a raised error leaves the map
cloneArray(arr) ==
  LET items == CloneItems(arr, 1)
  IN  IF \E i \in DOMAIN items : IsThrow(items[i])
        THEN items[CHOOSE i \in DOMAIN items :
                     IsThrow(items[i]) /\ \A j \in 1..(i - 1) : ~IsThrow(items[j])]
        ELSE Arr(items)

\* lines 58-62: the processed form of a property value
ProcessValue(value) ==
  IF IsArray(value) THEN cloneArray(value)
  ELSE IF IsObject(value) THEN processMetadata(value)
  ELSE value

\* the loop taking the entries from the last to the first
ProcessEntriesReversed(result, data, i) ==
  IF IsThrow(result) \/ i > Len(EntryKeys(data))
    THEN result
    ELSE LET j == Len(EntryKeys(data)) - i + 1
         IN  ProcessEntriesReversed(
               ProcessEntry(result, EntryKeys(data)[j], ProcessValue(EntryVals(data)[j])),
               data, i + 1)

\* lines 51-109: the loop from entry i on; a raised error leaves the loop
ProcessEntries(result, data, i) ==
  IF IsThrow(result) \/ i > Len(EntryKeys(data))
    THEN result
    ELSE ProcessEntries(
           ProcessEntry(result, EntryKeys(data)[i], ProcessValue(EntryVals(data)[i])),
           data, i + 1)

\* lines 37-112
processMetadata(data) ==
  IF ~Truthy(data) \/ ~TypeofObject(data)
    THEN EmptyObj
    ELSE ProcessEntries(EmptyObj, data, 1)
----------------------------------------------------------------------------
(* extractWorkerMetadata, compiler/index.ts lines 35-174 *)

\* lines 124-129 and 367-371: the built-in config
DefaultEnv == Obj(<<"NODE_ENV">>, <<Str("production")>>)

DefaultConfig == Obj(<<"memory", "env">>, <<Num("128"), DefaultEnv>>)

\* lines 121-123: the properties the metadata literal starts with
BaseMetadata == Obj(<<"name", "routes", "config">>, <<Str(""), Arr(<<>>), DefaultConfig>>)

\* mdxld.data ?? {}
DataOf(doc) == IF doc.data.t \in {"null", "undefined"} THEN EmptyObj ELSE doc.data

\* line 118: processedData['$worker'] || processedData['@worker']
WorkerData(processed) == Or(Get(processed, "$worker"), Get(processed, "@worker"))

\* lines 133-134: ...(mdxld.f ? { f: mdxld.f } : {})
WithTyped(m, field, value) == IF Truthy(value) THEN SetProp(m, field, value) ELSE m

\* lines 121-135: the metadata object literal
InitialMetadata(processed, doc) ==
  WithTyped(WithTyped(Spread(BaseMetadata, processed), "type", doc.type),
            "context", doc.context)

\* line 139: metadata.name = options.worker.name || metadata.name
OptionName(m, worker) == SetProp(m, "name", Or(Get(worker, "name"), Get(m, "name")))

\* line 140: metadata.routes = options.worker.routes || metadata.routes
OptionRoutes(m, worker) == SetProp(m, "routes", Or(Get(worker, "routes"), Get(m, "routes")))

\* lines 138-141
ApplyOptions(m, opts) ==
  IF Truthy(Get(opts, "worker"))
    THEN OptionRoutes(OptionName(m, Get(opts, "worker")), Get(opts, "worker"))
    ELSE m

\* the block's name applied only when no name is set yet
BlockNameUnlessSet(m, block) ==
  IF Truthy(Get(block, "name")) /\ ~Truthy(Get(m, "name"))
    THEN SetProp(m, "name", StringOf(Get(block, "name")))
    ELSE m

\* lines 145-147 and 159-161
BlockName(m, block) ==
  IF Truthy(Get(block, "name")) THEN SetProp(m, "name", StringOf(Get(block, "name"))) ELSE m

\* lines 148-150 and 162-164
BlockRoutes(m, block) ==
  IF IsArray(Get(block, "routes")) THEN SetProp(m, "routes", Get(block, "routes")) ELSE m

\* lines 151-156 and 165-170
BlockConfig(m, block) ==
  IF Truthy(Get(block, "config")) /\ TypeofObject(Get(block, "config"))
    THEN SetProp(m, "config", Spread(Spread(EmptyObj, Get(m, "config")), Get(block, "config")))
    ELSE m

ApplyBlock(m, block) == BlockConfig(BlockRoutes(BlockName(m, block), block), block)

\* the worker block applied only when written with a prefix
ApplyWorkerDataPrefixedOnly(m, processed) ==
  IF Truthy(WorkerData(processed)) THEN ApplyBlock(m, WorkerData(processed)) ELSE m

\* lines 144-171
ApplyWorkerData(m, processed) ==
  IF Truthy(WorkerData(processed))
    THEN ApplyBlock(m, WorkerData(processed))
    ELSE IF Truthy(Get(processed, "worker")) /\ TypeofObject(Get(processed, "worker"))
           THEN ApplyBlock(m, Get(processed, "worker"))
           ELSE m

\* the merge with the options applied after the worker block
MergeMetadataOptionsLast(processed, doc, opts) ==
  ApplyOptions(ApplyWorkerData(InitialMetadata(processed, doc), processed), opts)

\* lines 117-173: the metadata built from the processed data
MergeMetadata(processed, doc, opts) ==
  ApplyWorkerData(ApplyOptions(InitialMetadata(processed, doc), opts), processed)

\* lines 35-174
extractWorkerMetadata(doc, opts) ==
  IF IsThrow(processMetadata(DataOf(doc)))
    THEN processMetadata(DataOf(doc))
    ELSE MergeMetadata(processMetadata(DataOf(doc)), doc, opts)

\* the metadata of the worker context without the defaults under its config
ContextMetadataNoDefaults(m) ==
  SetProp(Spread(EmptyObj, m), "config", Spread(EmptyObj, Or(Get(m, "config"), EmptyObj)))

\* lines 365-374: the metadata of the worker context
ContextMetadata(m) ==
  SetProp(Spread(EmptyObj, m), "config",
          Spread(Spread(EmptyObj, DefaultConfig), Or(Get(m, "config"), EmptyObj)))
----------------------------------------------------------------------------
(* The same code on an object store.  A store is a sequence of nodes; a    *)
(* node is an object or array whose slots hold scalars or references.      *)
(* Every operator takes the store and returns [h, v]: the store after its  *)
(* allocations and writes, and its result (a raised error when v is one).  *)

Ref(i) == [t |-> "ref", s |-> ToString(i), k |-> <<>>, c |-> <<>>]

IsRef(v) == v.t = "ref"

Addr(h, v) == CHOOSE i \in DOMAIN h : ToString(i) = v.s

Node(h, v) == h[Addr(h, v)]

\* a new object or array literal
Alloc(h, node) == [h |-> Append(h, node), v |-> Ref(Len(h) + 1)]

\* ref[key] = val
Write(h, ref, key, val) == [h EXCEPT ![Addr(h, ref)] = SetProp(@, key, val)]

HIsArray(h, v) == IsRef(v) /\ Node(h, v).t = "array"

HIsObject(h, v) == IsRef(v) /\ Node(h, v).t = "object"

HTypeofObject(v) == IsRef(v) \/ v.t = "null"

HTruthy(v) == IsRef(v) \/ Truthy(v)

HOr(a, b) == IF HTruthy(a) THEN a ELSE b

HGet(h, v, key) == IF IsRef(v) THEN Get(Node(h, v), key) ELSE Undefined

HEntryKeys(h, v) == IF IsRef(v) THEN EntryKeys(Node(h, v)) ELSE EntryKeys(v)

HEntryVals(h, v) == IF IsRef(v) THEN EntryVals(Node(h, v)) ELSE EntryVals(v)

RECURSIVE Load(_, _), LoadItems(_, _, _, _)
LoadItems(h, items, i, acc) ==
  IF i > Len(items)
    THEN [h |-> h, v |-> acc]
    ELSE LET r == Load(h, items[i]) IN LoadItems(r.h, items, i + 1, Append(acc, r.v))

\* the store holding value, as the parser or the caller built it
Load(h, value) ==
  IF value.t \in {"array", "object"}
    THEN LET r == LoadItems(h, value.c, 1, <<>>) IN Alloc(r.h, [value EXCEPT !.c = r.v])
    ELSE [h |-> h, v |-> value]

RECURSIVE Reify(_, _)
\* the value reachable from v
Reify(h, v) ==
  IF IsRef(v)
    THEN [Node(h, v) EXCEPT !.c = [i \in DOMAIN Node(h, v).c |-> Reify(h, Node(h, v).c[i])]]
    ELSE v

RECURSIVE HNewContextFrom(_, _, _, _, _)
\* lines 84-93
HNewContextFrom(h, newContext, keys, vals, i) ==
  IF i > Len(keys)
    THEN h
    ELSE HNewContextFrom(Write(h, newContext, ContextKey(keys[i]), vals[i]),
                         newContext, keys, vals, i + 1)

\* lines 79-96
HHandleContext(h, result, cleanKey, processedValue) ==
  IF cleanKey \in ContextKeys /\ HTypeofObject(processedValue)
    THEN IF processedValue.t = "null"
           THEN [h |-> h, v |-> Throw("Cannot convert undefined or null to object")]
           ELSE LET new == Alloc(h, EmptyObj)
                    filled == HNewContextFrom(new.h, new.v, HEntryKeys(h, processedValue),
                                              HEntryVals(h, processedValue), 1)
                IN  [h |-> Write(filled, result, "context", new.v), v |-> result]
    ELSE [h |-> h, v |-> result]

\* line 101
HHoistName(h, result, config) ==
  IF HTruthy(HGet(h, config, "name")) THEN Write(h, result, "name", HGet(h, config, "name")) ELSE h

\* line 102
HHoistRoutes(h, result, config) ==
  IF HTruthy(HGet(h, config, "routes"))
    THEN Write(h, result, "routes", HGet(h, config, "routes"))
    ELSE h

\* lines 99-103
HHandleWorker(h, result, cleanKey, processedValue) ==
  IF cleanKey \in WorkerKeys
    THEN HHoistRoutes(HHoistName(h, result, processedValue), result, processedValue)
    ELSE h

\* lines 106-108
HHandleList(h, result, cleanKey, processedValue) ==
  IF cleanKey \in ListKeys
    THEN IF HIsArray(h, processedValue)
           THEN Write(h, result, "list", processedValue)
           ELSE LET wrapped == Alloc(h, Arr(<<processedValue>>))
                IN  Write(wrapped.h, result, "list", wrapped.v)
    ELSE h

\* lines 65-76
HStoreSpellings(h, result, cleanKey, processedValue) ==
  IF PrefixOf(cleanKey) # ""
    THEN Write(
           Write(
             Write(h, result, cleanKey, processedValue),
             result, UnprefixedKey(cleanKey), processedValue),
           result, OtherPrefix(PrefixOf(cleanKey)) \o UnprefixedKey(cleanKey), processedValue)
    ELSE Write(h, result, cleanKey, processedValue)

\* lines 64-108, after the value of the entry has been processed
HStoreEntry(h, result, key, processedValue) ==
  LET cleanKey == CleanKey(key)
      withContext == HHandleContext(HStoreSpellings(h, result, cleanKey, processedValue),
                                    result, cleanKey, processedValue)
  IN  IF IsThrow(withContext.v)
        THEN withContext
        ELSE [h |-> HHandleList(HHandleWorker(withContext.h, result, cleanKey, processedValue),
                                result, cleanKey, processedValue),
              v |-> result]

\* const result = data : the result aliased to the input instead of a new object
HAliasedResult(h, data) == [h |-> h, v |-> data]

\* line 40: const result = {}
HNewResult(h, data) == Alloc(h, EmptyObj)

RECURSIVE HProcessMetadata(_, _), HCloneArray(_, _), HCloneItems(_, _, _, _),
          HProcessValue(_, _), HProcessEntries(_, _, _, _, _)

\* lines 58-62 and 44-48
HProcessValue(h, value) ==
  IF HIsArray(h, value) THEN HCloneArray(h, value)
  ELSE IF HIsObject(h, value) THEN HProcessMetadata(h, value)
  ELSE [h |-> h, v |-> value]

\* arr.map(...) from element i on; a raised error ends the map
HCloneItems(h, items, i, acc) ==
  IF i > Len(items)
    THEN [h |-> h, v |-> acc]
    ELSE LET r == HProcessValue(h, items[i])
         IN  IF IsThrow(r.v)
               THEN [h |-> r.h, v |-> <<r.v>>]
               ELSE HCloneItems(r.h, items, i + 1, Append(acc, r.v))

\* lines 43-48
HCloneArray(h, arr) ==
  LET r == HCloneItems(h, Node(h, arr).c, 1, <<>>)
  IN  IF \E i \in DOMAIN r.v : IsThrow(r.v[i])
        THEN [h |-> r.h, v |-> r.v[1]]
        ELSE Alloc(r.h, Arr(r.v))

\* lines 51-109 from entry i of the entries read at line 51
HProcessEntries(h, result, keys, vals, i) ==
  IF i > Len(keys)
    THEN [h |-> h, v |-> result]
    ELSE LET processed == HProcessValue(h, vals[i])
             stored == HStoreEntry(processed.h, result, keys[i], processed.v)
         IN  IF IsThrow(processed.v) THEN processed
             ELSE IF IsThrow(stored.v) THEN stored
             ELSE HProcessEntries(stored.h, result, keys, vals, i + 1)

\* lines 37-112
HProcessMetadata(h, data) ==
  IF ~HTruthy(data) \/ ~HTypeofObject(data)
    THEN Alloc(h, EmptyObj)
    ELSE LET result == HNewResult(h, data)
         IN  HProcessEntries(result.h, result.v, HEntryKeys(h, data), HEntryVals(h, data), 1)

RECURSIVE HSpreadFrom(_, _, _, _, _)
\* ...src into the object literal target, from entry i of src
HSpreadFrom(h, target, keys, vals, i) ==
  IF i > Len(keys)
    THEN h
    ELSE HSpreadFrom(Write(h, target, keys[i], vals[i]), target, keys, vals, i + 1)

HSpread(h, target, src) == HSpreadFrom(h, target, HEntryKeys(h, src), HEntryVals(h, src), 1)

\* lines 133-134
HWithTyped(h, m, field, value) == IF HTruthy(value) THEN Write(h, m, field, value) ELSE h

\* the metadata object with one default config kept for all invocations: the
\* config node an earlier invocation made is used again
HInitialMetadataSharedDefault(h, processed, type, context) ==
  LET made == {i \in DOMAIN h : h[i].t = "object" /\ h[i].k = <<"memory", "env">>}
      env == Alloc(h, DefaultEnv)
      config == IF made = {}
                  THEN Alloc(env.h, Obj(<<"memory", "env">>, <<Num("128"), env.v>>))
                  ELSE [h |-> h, v |-> Ref(CHOOSE i \in made : \A j \in made : i <= j)]
      routes == Alloc(config.h, Arr(<<>>))
      m == Alloc(routes.h, Obj(<<"name", "routes", "config">>, <<Str(""), routes.v, config.v>>))
  IN  [h |-> HWithTyped(HWithTyped(HSpread(m.h, m.v, processed), m.v, "type", type),
                        m.v, "context", context),
       v |-> m.v]

\* lines 121-135: a new metadata object with new routes, config and env
HInitialMetadata(h, processed, type, context) ==
  LET env == Alloc(h, DefaultEnv)
      config == Alloc(env.h, Obj(<<"memory", "env">>, <<Num("128"), env.v>>))
      routes == Alloc(config.h, Arr(<<>>))
      m == Alloc(routes.h, Obj(<<"name", "routes", "config">>, <<Str(""), routes.v, config.v>>))
  IN  [h |-> HWithTyped(HWithTyped(HSpread(m.h, m.v, processed), m.v, "type", type),
                        m.v, "context", context),
       v |-> m.v]

\* lines 138-141
HApplyOptions(h, m, opts) ==
  LET worker == HGet(h, opts, "worker")
      named == Write(h, m, "name", HOr(HGet(h, worker, "name"), HGet(h, m, "name")))
  IN  IF HTruthy(worker)
        THEN Write(named, m, "routes", HOr(HGet(h, worker, "routes"), HGet(h, m, "routes")))
        ELSE h

\* lines 145-147 and 159-161
HBlockName(h, m, block) ==
  IF HTruthy(HGet(h, block, "name"))
    THEN Write(h, m, "name", StringOf(Reify(h, HGet(h, block, "name"))))
    ELSE h

\* lines 148-150 and 162-164
HBlockRoutes(h, m, block) ==
  IF HIsArray(h, HGet(h, block, "routes")) THEN Write(h, m, "routes", HGet(h, block, "routes")) ELSE h

\* lines 151-156 and 165-170: a new config object
HBlockConfig(h, m, block) ==
  IF HTruthy(HGet(h, block, "config")) /\ HTypeofObject(HGet(h, block, "config"))
    THEN LET new == Alloc(h, EmptyObj)
         IN  Write(HSpread(HSpread(new.h, new.v, HGet(h, m, "config")),
                           new.v, HGet(h, block, "config")),
                   m, "config", new.v)
    ELSE h

HApplyBlock(h, m, block) == HBlockConfig(HBlockRoutes(HBlockName(h, m, block), m, block), m, block)

\* line 118
HWorkerData(h, processed) == HOr(HGet(h, processed, "$worker"), HGet(h, processed, "@worker"))

\* lines 144-171
HApplyWorkerData(h, m, processed) ==
  IF HTruthy(HWorkerData(h, processed))
    THEN HApplyBlock(h, m, HWorkerData(h, processed))
    ELSE IF HTruthy(HGet(h, processed, "worker")) /\ HTypeofObject(HGet(h, processed, "worker"))
           THEN HApplyBlock(h, m, HGet(h, processed, "worker"))
           ELSE h

\* lines 117-173
HMergeMetadata(h, processed, type, context, opts) ==
  LET m == HInitialMetadata(h, processed, type, context)
  IN  [h |-> HApplyWorkerData(HApplyOptions(m.h, m.v, opts), m.v, processed), v |-> m.v]

----------------------------------------------------------------------------
(* Strings: the String.prototype methods compile uses *)

CharAt(s, i) == SubSeq(s, i, i)

\* the characters String.prototype.trim and the regular expression \s remove
Whitespace == {" ", "\t", "\n"}

\* s.slice(from)
SliceFrom(s, from) == SubSeq(s, from, Len(s))

\* s.startsWith(pat, at position i)
StartsWithAt(s, pat, i) ==
  i + Len(pat) - 1 <= Len(s) /\ SubSeq(s, i, i + Len(pat) - 1) = pat

StartsWith(s, pat) == StartsWithAt(s, pat, 1)

EndsWith(s, pat) == Len(pat) <= Len(s) /\ SubSeq(s, Len(s) - Len(pat) + 1, Len(s)) = pat

\* s.indexOf(pat) + 1: the first position pat occurs at, 0 when it does not
indexOf(s, pat) ==
  LET P == {i \in 1..Len(s) : StartsWithAt(s, pat, i)}
  IN  IF P = {} THEN 0 ELSE CHOOSE i \in P : \A j \in P : i <= j

Includes(s, pat) == indexOf(s, pat) # 0

\* line.match(/^\s*/)[0]: the leading whitespace
LeadingSpace(s) ==
  LET P == {i \in 1..Len(s) : CharAt(s, i) \notin Whitespace}
  IN  IF P = {} THEN s ELSE SubSeq(s, 1, (CHOOSE i \in P : \A j \in P : i <= j) - 1)

\* s.trim()
Trim(s) ==
  LET P == {i \in 1..Len(s) : CharAt(s, i) \notin Whitespace}
  IN  IF P = {} THEN ""
      ELSE SubSeq(s, CHOOSE i \in P : \A j \in P : i <= j,
                     CHOOSE i \in P : \A j \in P : j <= i)

RECURSIVE Split(_, _)
\* s.split(sep) for a non-empty separator
Split(s, sep) ==
  IF indexOf(s, sep) = 0
    THEN <<s>>
    ELSE <<SubSeq(s, 1, indexOf(s, sep) - 1)>>
           \o Split(SliceFrom(s, indexOf(s, sep) + Len(sep)), sep)

RECURSIVE Join(_, _)
\* parts.join(sep)
Join(parts, sep) ==
  IF Len(parts) = 0 THEN ""
  ELSE IF Len(parts) = 1 THEN parts[1]
  ELSE parts[1] \o sep \o Join(Tail(parts), sep)

RECURSIVE SplitSpace(_)
\* s.split(/\s+/)
SplitSpace(s) ==
  LET W == {i \in 1..Len(s) : CharAt(s, i) \in Whitespace}
  IN  IF W = {} THEN <<s>>
      ELSE LET a == CHOOSE i \in W : \A j \in W : i <= j
               rest == SliceFrom(s, a)
           IN  <<SubSeq(s, 1, a - 1)>>
                 \o SplitSpace(SliceFrom(rest, Len(LeadingSpace(rest)) + 1))

\* s.split(/\s+(.*)/): the text before the first run of whitespace, the text
\* after it and an empty string; s alone when it holds no whitespace
SplitSpaceRest(s) ==
  LET W == {i \in 1..Len(s) : CharAt(s, i) \in Whitespace}
  IN  IF W = {} THEN <<s>>
      ELSE LET a == CHOOSE i \in W : \A j \in W : i <= j
               rest == SliceFrom(s, a)
           IN  <<SubSeq(s, 1, a - 1), SliceFrom(rest, Len(LeadingSpace(rest)) + 1), "">>

RECURSIVE EscapeQuotes(_)
\* s.replace(/"/g, '\\"')
EscapeQuotes(s) ==
  IF Len(s) = 0 THEN ""
  ELSE (IF CharAt(s, 1) = "\"" THEN "\\\"" ELSE CharAt(s, 1)) \o EscapeQuotes(SliceFrom(s, 2))

\* s.replace(/^['"]|['"]$/g, '')
StripQuotes(s) ==
  LET a == IF FirstChar(s) \in Quotes THEN SliceFrom(s, 2) ELSE s
  IN  IF LastChar(a) \in Quotes THEN SubSeq(a, 1, Len(a) - 1) ELSE a

Digits == {"0", "1", "2", "3", "4", "5", "6", "7", "8", "9"}

\* !isNaN(Number(s)) for a trimmed s: the empty string converts to 0; of the
\* numeric lexemes only the decimal ones (sign, digits, one point) occur in
\* the sources exercised
IsNumeric(s) ==
  \/ s = ""
  \/ LET body == IF FirstChar(s) \in {"+", "-"} THEN SliceFrom(s, 2) ELSE s
     IN  /\ \E i \in 1..Len(body) : CharAt(body, i) \in Digits
         /\ \A i \in 1..Len(body) : CharAt(body, i) \in Digits \cup {"."}
         /\ Cardinality({i \in 1..Len(body) : CharAt(body, i) = "."}) <= 1

----------------------------------------------------------------------------
(* preprocessYaml, compiler/index.ts lines 182-355 *)

\* lines 207 and 238-245: the characters that make a key or value quoted
NeedsQuotes(s) ==
  \E ch \in {" ", "\"", "'", "/", ":"} : Includes(s, ch)

\* lines 208 and 246
Quoted(s) == "\"" \o EscapeQuotes(s) \o "\""

\* lines 192-212
quoteKey(key, inArray) ==
  LET unquoted == StripQuotes(Trim(key))
  IN  IF StartsWith(unquoted, "@") \/ StartsWith(unquoted, "$") THEN unquoted
      ELSE IF NeedsQuotes(unquoted) \/ inArray THEN Quoted(unquoted)
      ELSE unquoted

\* lines 214-250; inQuotedValue is never set, so an array item is quoted
processValue(value, inArray) ==
  LET trimmed == Trim(value)
  IN  IF trimmed \in {"true", "false"} THEN trimmed
      ELSE IF IsNumeric(trimmed) /\ trimmed # "" THEN trimmed
      ELSE IF StartsWith(trimmed, "@") \/ StartsWith(trimmed, "$") THEN trimmed
      ELSE IF NeedsQuotes(trimmed) \/ inArray THEN Quoted(trimmed)
      ELSE trimmed

\* lines 338-349: the text after the colon of a key-value pair
PairValue(value, inArray) ==
  IF value = "" THEN ""
  ELSE IF value \in {"true", "false"} \/ IsNumeric(value) THEN " " \o value
  ELSE " " \o processValue(value, inArray)

\* lines 278-287: the value of a key-value array item; a value with an
\* '@' or '$' prefix is copied
ItemPairValue(value, inArray) ==
  IF value = "" THEN ""
  ELSE IF value \in {"true", "false"} \/ IsNumeric(value) THEN " " \o value
  ELSE IF StartsWith(value, "@") \/ StartsWith(value, "$") THEN " " \o value
  ELSE " " \o processValue(value, inArray)

\* lines 262-303: a line whose trimmed text starts with '-', inArray being true
ArrayLine(line, trimmed, indent) ==
  IF Len(trimmed) >= 2
     /\ FirstChar(SliceFrom(trimmed, Len(LeadingSpace(SliceFrom(trimmed, 2))) + 2)) \in {"@", "$"}
    THEN \* lines 264-269
         LET parts == SplitSpace(trimmed)
         IN  indent \o parts[1] \o " " \o processValue(Join(Tail(parts), " "), TRUE)
  ELSE IF Includes(trimmed, ":")
    THEN \* lines 270-289
         LET parts == SplitSpaceRest(trimmed)
         IN  IF Len(parts) < 2
               THEN "TypeError"
               ELSE LET kv == Split(parts[2], ":")
                    IN  indent \o parts[1] \o " " \o quoteKey(kv[1], TRUE) \o ":"
                          \o ItemPairValue(Trim(Join(Tail(kv), ":")), TRUE)
  ELSE \* lines 290-300
       LET value == Trim(SliceFrom(trimmed, 2))
       IN  IF value \in {"true", "false"} \/ IsNumeric(value) THEN indent \o "- " \o value
           ELSE IF StartsWith(value, "@") \/ StartsWith(value, "$") THEN indent \o "- " \o value
           ELSE indent \o "- " \o processValue(value, TRUE)

\* lines 272-273: keyValue is undefined when the item holds no whitespace,
\* and keyValue.split raises
ArrayLineThrows(trimmed) ==
  /\ ~( Len(trimmed) >= 2
        /\ FirstChar(SliceFrom(trimmed, Len(LeadingSpace(SliceFrom(trimmed, 2))) + 2)) \in {"@", "$"} )
  /\ Includes(trimmed, ":")
  /\ Len(SplitSpaceRest(trimmed)) < 2

RECURSIVE PopIndent(_, _, _)
\* lines 321-323: the while loop; yields <<currentIndent, indentStack>>
PopIndent(indent, currentIndent, indentStack) ==
  IF Len(indentStack) # 0 /\ Len(indent) <= Len(currentIndent)
    THEN PopIndent(indent, indentStack[Len(indentStack)],
                   SubSeq(indentStack, 1, Len(indentStack) - 1))
    ELSE <<currentIndent, indentStack>>

\* the state of the loop over the lines before any line
NoLines ==
  [lines |-> <<>>, inArray |-> FALSE, currentIndent |-> "", indentStack |-> <<>>,
   thrown |-> FALSE]

\* lines 252-352: the callback of forEach for one line
PreprocessLine(st, line) ==
  LET trimmed == Trim(line)
      indent == LeadingSpace(line)
      push(l) == [st EXCEPT !.lines = Append(st.lines, l)]
  IN  IF st.thrown THEN st
      ELSE IF trimmed = "" THEN push(line)
      ELSE IF StartsWith(trimmed, "-")
        THEN IF ArrayLineThrows(trimmed)
               THEN [st EXCEPT !.thrown = TRUE]
               ELSE [st EXCEPT !.lines = Append(st.lines, ArrayLine(line, trimmed, indent)),
                               !.inArray = TRUE]
      ELSE IF EndsWith(trimmed, ":")
        THEN LET entered == IF st.inArray THEN st
                            ELSE [st EXCEPT !.indentStack = Append(st.indentStack, st.currentIndent),
                                            !.currentIndent = indent]
             IN  [entered EXCEPT !.lines =
                    Append(st.lines,
                           indent \o quoteKey(SubSeq(trimmed, 1, Len(trimmed) - 1), st.inArray)
                             \o ":")]
      ELSE LET left == IF Len(indent) <= Len(st.currentIndent)
                         THEN [st EXCEPT !.inArray = FALSE,
                                         !.currentIndent =
                                            PopIndent(indent, st.currentIndent, st.indentStack)[1],
                                         !.indentStack =
                                            PopIndent(indent, st.currentIndent, st.indentStack)[2]]
                         ELSE st
               colonIndex == indexOf(line, ":")
           IN  IF colonIndex = 0
                 THEN [left EXCEPT !.lines = Append(st.lines, line)]
                 ELSE [left EXCEPT !.lines =
                         Append(st.lines,
                                indent
                                  \o quoteKey(Trim(SubSeq(line, 1, colonIndex - 1)), left.inArray)
                                  \o ":"
                                  \o PairValue(Trim(SliceFrom(line, colonIndex + 1)),
                                               left.inArray))]

RECURSIVE PreprocessLines(_, _, _)
\* frontmatter.split('\n').forEach(...) from line i on
PreprocessLines(st, lines, i) ==
  IF i > Len(lines) THEN st ELSE PreprocessLines(PreprocessLine(st, lines[i]), lines, i + 1)

\* the rewriting applied to the block between the opening and the closing fence
preprocessYamlInsideFence(content) ==
  LET parts == Split(content, "---\n")
      st == PreprocessLines(NoLines, Split(parts[2], "\n"), 1)
  IN  IF Len(parts) < 3 \/ parts[1] # "" THEN Str(content)
      ELSE IF st.thrown
        THEN Throw("Cannot read properties of undefined (reading 'split')")
      ELSE Str(Join(<<"", Join(st.lines, "\n")>> \o Tail(Tail(parts)), "---\n"))

\* lines 182-355: the text handed to the parser, a raised TypeError as a
\* thrown value
preprocessYaml(content) ==
  LET parts == Split(content, "---\n")
      frontmatter == parts[1]
      rest == Tail(parts)
      st == PreprocessLines(NoLines, Split(frontmatter, "\n"), 1)
  IN  IF frontmatter = "" \/ Len(rest) = 0 THEN Str(content)
      ELSE IF st.thrown
        THEN Throw("Cannot read properties of undefined (reading 'split')")
      ELSE Str(Join(<<Join(st.lines, "\n")>> \o rest, "---\n"))

----------------------------------------------------------------------------
(* The documents, typed attributes and options the pipeline is run on *)

\* largest number of entries of a frontmatter mapping
MaxKeys == 2

\* largest length of a sequence in the frontmatter
MaxLen == 2

\* the most lines of a source text
MaxLines == 3

A == Str("a")

B == Str("b")

O1(k1, v1) == Obj(<<k1>>, <<v1>>)

O2(k1, v1, k2, v2) == Obj(<<k1, k2>>, <<v1, v2>>)

\* the sequences of a and b of length at most MaxLen
ArrVals == {Arr(items) : items \in UNION {[1..n -> {A, B}] : n \in 0..MaxLen}}

\* entries of the documents the normalizer is exercised on
NormEntries ==
  {<<"$type", A>>, <<"@type", B>>, <<"type", B>>, <<"'@id'", A>>}
    \cup ({"context"} \X
            { Null, Arr(<<A, B>>), O1("vocab", A), O2("vocab", A, "dc", B),
              O2("vocab", A, "@vocab", B), O2("@vocab", B, "vocab", A),
              O2("dc", O1("@id", A), "vocab", B) })
    \cup ({"$context"} \X {A, Num("5"), O2("vocab", A, "dc", B), O1("$vocab", A)})
    \cup {<<"'@context'", O1("vocab", B)>>}
    \cup ({"list"} \X ArrVals)
    \cup ({"$list"} \X {A, Null, O1("@type", A), Arr(<<B, A>>)})
    \cup {<<"$worker", O2("name", A, "routes", Arr(<<A, B>>))>>, <<"worker", O1("name", B)>>,
          <<"@worker", O2("name", Num("5"), "routes", A)>>}
    \cup {<<"foo", A>>, <<"$foo", O1("@type", A)>>, <<"name", B>>,
          <<"items", Arr(<<O1("$id", A), Arr(<<B, A>>)>>)>>, <<"routes", Arr(<<B, A>>)>>,
          <<"items", Arr(<<Arr(<<O1("'@type'", B)>>)>>)>>,
          <<"nested", Obj(<<"'@type'", "'$id'", "data">>,
                          <<Str("Person"), Str("p"),
                            O2("age", Num("30"), "active", Bool("true"))>>)>>}

\* entries of the documents the merge is exercised on
MergeEntries ==
  ({"$worker"} \X
     { O1("name", A), O2("name", B, "routes", Arr(<<B>>)),
       O2("name", Str(""), "routes", Arr(<<A, B>>)),
       O1("config", O1("env", O1("MODE", Str("dev")))), A })
    \cup ({"@worker"} \X
            { O2("name", B, "routes", Arr(<<B>>)),
              O2("name", A, "config", O1("memory", Num("256"))), O1("routes", A) })
    \cup ({"worker"} \X {O1("name", A), O1("name", Num("5")), O1("config", Str("ab")), Null})
    \cup {<<"name", B>>, <<"name", Num("5")>>, <<"routes", Arr(<<B>>)>>, <<"routes", A>>,
          <<"config", O1("memory", Num("512"))>>, <<"config", Str("ab")>>, <<"config", Null>>,
          <<"$config", O1("env", O1("MODE", Str("test")))>>, <<"context", Null>>,
          <<"$context", O1("$vocab", A)>>,
          <<"$type", A>>, <<"type", B>>, <<"'@id'", A>>, <<"title", B>>}

\* entries of the documents the object-store run is exercised on
HeapEntries ==
  { <<"$type", A>>, <<"'@id'", B>>, <<"context", Null>>, <<"context", Arr(<<A, B>>)>>,
    <<"$context", O2("vocab", A, "dc", O1("@id", B))>>, <<"list", A>>,
    <<"$list", Arr(<<B, A>>)>>, <<"items", Arr(<<O1("$id", A), Arr(<<B, A>>)>>)>>,
    <<"$worker", O2("name", B, "routes", Arr(<<B>>))>>,
    <<"@worker", O2("name", A, "config", O1("memory", Num("256")))>>,
    <<"worker", O1("config", O1("env", O1("MODE", Str("dev"))))>>,
    <<"name", B>>, <<"routes", Arr(<<A>>)>>, <<"config", O1("memory", Num("512"))>>,
    <<"config", Str("ab")>> }

\* a list of entries is a mapping when its keys are distinct
DistinctKeys(es) ==
  \A i, j \in DOMAIN es : i # j => es[i][1] # es[j][1]

\* the mapping holding the entries of es in that order
MappingOf(es) ==
  Obj([i \in DOMAIN es |-> es[i][1]], [i \in DOMAIN es |-> es[i][2]])

\* the typed attributes <<type, context, id>> the parser surfaces
TypedAttributes ==
  { <<Undefined, Undefined, Undefined>>, <<Str("Article"), O1("vocab", B), Str("t-1")>> }

Document(data, typed) ==
  [data |-> data, type |-> typed[1], context |-> typed[2], id |-> typed[3],
   content |-> "# Content"]

\* the options of the CLI's compile command: no worker entry (cli/index.ts line 56)
CliOptions == O1("output", Str("dist"))

WorkerOptions(name) ==
  O1("worker", O2("name", name, "compatibilityDate", Str("2024-01-01")))

WorkerOptionsWithRoutes(name, routes) ==
  O1("worker", Obj(<<"name", "routes", "compatibilityDate">>,
                   <<name, routes, Str("2024-01-01")>>))

CallerName == Str("test-worker")

CallerRoutes == Arr(<<Str("/test")>>)

OptionValues ==
  { CliOptions, WorkerOptions(CallerName),
    WorkerOptionsWithRoutes(CallerName, CallerRoutes),
    WorkerOptionsWithRoutes(Str(""), Arr(<<>>)) }

----------------------------------------------------------------------------
(* compile, compiler/index.ts lines 179-423, from the parsed document on *)

\* the state no call has touched
Untouched ==
  /\ pc = "parsed"
  /\ processedData = Undefined
  /\ metadata = Undefined
  /\ workerContext = Undefined
  /\ error = Undefined
  /\ resultRef = Undefined
  /\ metadataRef = Undefined
  /\ input = Undefined
  /\ source = Undefined
  /\ thrown = Undefined
  /\ bundle = Undefined
  /\ console = <<>>
  /\ exitCode = Undefined
  /\ compileCalls = 0
  /\ invocation = <<>>
  /\ deployment = <<>>
  /\ disk = <<>>

Init ==
  /\ Untouched
  /\ \E n \in 0..MaxKeys : \E es \in [1..n -> MergeEntries], ty \in TypedAttributes :
       /\ DistinctKeys(es)
       /\ mdxld = Document(MappingOf(es), ty)
       /\ \/ options \in OptionValues /\ ty[1] = Undefined
          \/ options = WorkerOptions(CallerName) /\ ty[1] # Undefined
  /\ heap = <<>>
  /\ roots = [data |-> Undefined, context |-> Undefined, options |-> Undefined]

\* line 420: error instanceof Error ? error.message : String(error); a value
\* with tag "throw" is an Error with that message
errorMessage(e) == IF IsThrow(e) THEN e.s ELSE StringOf(e).s

\* the caught error rethrown as it is
RejectionUnwrapped(e) == Str(errorMessage(e))

\* line 421: the message of the Error compile rejects with
Rejection(e) == Str("Failed to compile MDXLD worker: " \o errorMessage(e))

\* line 115
ProcessData ==
  /\ pc = "parsed"
  /\ ~IsThrow(processMetadata(DataOf(mdxld)))
  /\ processedData' = processMetadata(DataOf(mdxld))
  /\ pc' = "processed"
  /\ UNCHANGED <<outer, mdxld, options, metadata, workerContext, error, store>>

\* line 115 raising, caught at lines 419-422
ProcessDataThrows ==
  /\ pc = "parsed"
  /\ IsThrow(processMetadata(DataOf(mdxld)))
  /\ thrown' = processMetadata(DataOf(mdxld))
  /\ error' = Rejection(processMetadata(DataOf(mdxld)))
  /\ pc' = "rejected"
  /\ UNCHANGED <<mdxld, options, processedData, metadata, workerContext, store,
                 input, source, bundle, console, exitCode, compileCalls, invocation, deployed>>

\* lines 117-173 and 361
Merge ==
  /\ pc = "processed"
  /\ metadata' = MergeMetadata(processedData, mdxld, options)
  /\ pc' = "extracted"
  /\ UNCHANGED <<outer, mdxld, options, processedData, workerContext, error, store>>

\* lines 364-376
BuildContext ==
  /\ pc = "extracted"
  /\ workerContext' = O2("metadata", ContextMetadata(metadata), "content", Str(mdxld.content))
  /\ pc' = "context"
  /\ UNCHANGED <<outer, mdxld, options, processedData, metadata, error, store>>

Next == ProcessData \/ ProcessDataThrows \/ Merge \/ BuildContext

Spec == Init /\ [][Next]_vars

----------------------------------------------------------------------------
(* processMetadata alone, on the documents that exercise the normalizer *)

NormInit ==
  /\ Untouched
  /\ \E n \in 0..MaxKeys : \E es \in [1..n -> NormEntries] :
       /\ DistinctKeys(es)
       /\ mdxld = Document(MappingOf(es), <<Undefined, Undefined, Undefined>>)
  /\ options = WorkerOptions(CallerName)
  /\ heap = <<>>
  /\ roots = [data |-> Undefined, context |-> Undefined, options |-> Undefined]

NormNext == ProcessData \/ ProcessDataThrows

NormSpec == NormInit /\ [][NormNext]_vars
----------------------------------------------------------------------------
(* processMetadata on one-key documents, for every key over a small alphabet *)

\* the longest key
MaxKeyLen == 3

\* the characters of the keys: the quote characters, the prefixes, a letter
\* and a line terminator
KeyAlphabet == {"'", "\"", "@", "$", "a", "\n"}

RECURSIVE KeyStrings(_)
\* the strings of at most n characters of the alphabet
KeyStrings(n) ==
  IF n = 0
    THEN {""}
    ELSE KeyStrings(n - 1) \cup {s \o ch : s \in KeyStrings(n - 1), ch \in KeyAlphabet}

KeyInit ==
  /\ Untouched
  /\ \E key \in KeyStrings(MaxKeyLen) :
       mdxld = Document(O1(key, A), <<Undefined, Undefined, Undefined>>)
  /\ options = WorkerOptions(CallerName)
  /\ heap = <<>>
  /\ roots = [data |-> Undefined, context |-> Undefined, options |-> Undefined]

KeyNext == ProcessData

KeySpec == KeyInit /\ [][KeyNext]_vars
----------------------------------------------------------------------------
(* compile as a whole, compiler/index.ts lines 179-423, called by a library *)
(* caller or by the compile command of the CLI, cli/index.ts lines 50-62.   *)
(* The parser (mdxld.parse) and the bundler (esbuild.build) are not part of *)
(* the repository: any outcome their interface allows is possible.          *)

\* the lines the source texts are made of
SourceLines ==
  {"---", "$type: Article", "Note: a b", "- Multiple items", "# Content", "-a:b"}

\* the text of these lines, each ended by a newline
TextOf(lines) == Join(lines \o <<"">>, "\n")

\* a document that starts with a frontmatter block: an opening fence at the
\* start of the text and a closing fence after it
HasFrontmatter(text) ==
  StartsWith(text, "---\n") /\ Len(Split(text, "---\n")) >= 3

\* the document content excluding the frontmatter (types/index.ts line 25):
\* the text after the closing fence, the whole text when there is no block
BodyOf(text) ==
  IF HasFrontmatter(text) THEN Join(Tail(Tail(Split(text, "---\n"))), "---\n") ELSE text

\* the data mappings the parser may yield for a frontmatter block
ParsedData ==
  { EmptyObj, O1("title", B), O1("context", Null),
    O1("$worker", O2("name", B, "routes", Arr(<<B>>))) }

\* the documents parse may return for a text: the content is the text after
\* the frontmatter block; without a block there is no data
ParseResults(text) ==
  IF HasFrontmatter(text)
    THEN {[Document(d, ty) EXCEPT !.content = BodyOf(text)] :
            d \in ParsedData, ty \in TypedAttributes}
    ELSE {[Document(EmptyObj, <<Undefined, Undefined, Undefined>>) EXCEPT !.content = text]}

\* what parse may throw
ParserErrors == {Throw("Failed to parse YAML frontmatter")}

\* what esbuild.build may reject with: an Error, or a value that is none
BundlerErrors == {Throw("Build failed with 1 error"), Str("build stopped")}

\* the text of the first output file of the bundler
BundleText == Str("export default { fetch: handleFetch };")

\* no document yet
NoDocument ==
  [data |-> Undefined, type |-> Undefined, context |-> Undefined, id |-> Undefined,
   content |-> ""]

\* the <input> arguments of the compile command
CliInputs == {"input.mdx", "---\n$type: Article\n---\n# Content\n"}

CompileInit ==
  /\ mdxld = NoDocument
  /\ processedData = Undefined
  /\ metadata = Undefined
  /\ workerContext = Undefined
  /\ error = Undefined
  /\ heap = <<>>
  /\ roots = [data |-> Undefined, context |-> Undefined, options |-> Undefined]
  /\ resultRef = Undefined
  /\ metadataRef = Undefined
  /\ thrown = Undefined
  /\ bundle = Undefined
  /\ console = <<>>
  /\ exitCode = Undefined
  /\ compileCalls = 0
  /\ invocation = <<>>
  /\ deployment = <<>>
  /\ disk = <<>>
  /\ \/ /\ pc = "cli"
        /\ input \in {Str(i) : i \in CliInputs}
        /\ source = Undefined
        /\ options = CliOptions
     \/ /\ pc = "source"
        /\ input = Undefined
        /\ \E n \in 1..MaxLines : \E ls \in [1..n -> SourceLines] : source = Str(TextOf(ls))
        /\ options = WorkerOptions(CallerName)

\* cli/index.ts line 56: compile(input, options)
CliCompile ==
  /\ pc = "cli"
  /\ source' = input
  /\ compileCalls' = compileCalls + 1
  /\ pc' = "source"
  /\ UNCHANGED <<mdxld, options, processedData, metadata, workerContext, error, store,
                 input, thrown, bundle, console, exitCode, invocation, deployed>>

\* line 358: parse(preprocessYaml(source)) returns a document
Parse ==
  /\ pc = "source"
  /\ ~IsThrow(preprocessYaml(source.s))
  /\ mdxld' \in ParseResults(preprocessYaml(source.s).s)
  /\ pc' = "parsed"
  /\ UNCHANGED <<outer, options, processedData, metadata, workerContext, error, store>>

\* the catch clause, lines 419-422, for a caught value e
Reject(e) ==
  /\ thrown' = e
  /\ error' = Rejection(e)
  /\ pc' = "rejected"
  /\ UNCHANGED <<mdxld, options, processedData, metadata, workerContext, store,
                 input, source, bundle, console, exitCode, compileCalls, invocation, deployed>>

\* line 358: preprocessYaml raises (line 273)
PreprocessThrows ==
  /\ pc = "source"
  /\ IsThrow(preprocessYaml(source.s))
  /\ Reject(preprocessYaml(source.s))

\* line 358: parse raises
ParseThrows ==
  /\ pc = "source"
  /\ ~IsThrow(preprocessYaml(source.s))
  /\ \E e \in ParserErrors : Reject(e)

\* lines 398-418: the bundler yields an output file, compile returns its text
BundleResolves ==
  /\ pc = "context"
  /\ bundle' = BundleText
  /\ pc' = "resolved"
  /\ UNCHANGED <<mdxld, options, processedData, metadata, workerContext, error, store,
                 input, source, thrown, console, exitCode, compileCalls, invocation, deployed>>

\* line 398: esbuild.build rejects
BundleThrows ==
  /\ pc = "context"
  /\ \E e \in BundlerErrors : Reject(e)

\* lines 414-416: the bundler yields no output file
BundleEmpty ==
  /\ pc = "context"
  /\ Reject(Throw("Failed to generate worker bundle"))

\* what console.log and console.error are called with
Logged(stream, args) == [stream |-> stream, args |-> args]

\* cli/index.ts line 57, after the await
CliSuccess ==
  /\ pc = "resolved"
  /\ input # Undefined
  /\ console' = Append(console, Logged("log", <<Str("Compilation completed successfully")>>))
  /\ pc' = "done"
  /\ UNCHANGED <<mdxld, options, processedData, metadata, workerContext, error, store,
                 input, source, thrown, bundle, exitCode, compileCalls, invocation, deployed>>

\* the catch clause falling through to the success message
CliFailureThenSuccess ==
  /\ pc = "rejected"
  /\ input # Undefined
  /\ console' = console \o <<Logged("error", <<Str("Compilation failed:"), error>>),
                             Logged("log", <<Str("Compilation completed successfully")>>)>>
  /\ exitCode' = Num("1")
  /\ pc' = "exited"
  /\ UNCHANGED <<mdxld, options, processedData, metadata, workerContext, error, store,
                 input, source, thrown, bundle, compileCalls, invocation, deployed>>

\* cli/index.ts lines 58-60: the catch clause
CliFailure ==
  /\ pc = "rejected"
  /\ input # Undefined
  /\ console' = Append(console, Logged("error", <<Str("Compilation failed:"), error>>))
  /\ exitCode' = Num("1")
  /\ pc' = "exited"
  /\ UNCHANGED <<mdxld, options, processedData, metadata, workerContext, error, store,
                 input, source, thrown, bundle, compileCalls, invocation, deployed>>

CompileNext ==
  \/ CliCompile
  \/ Parse
  \/ PreprocessThrows
  \/ ParseThrows
  \/ ProcessData
  \/ ProcessDataThrows
  \/ Merge
  \/ BuildContext
  \/ BundleResolves
  \/ BundleThrows
  \/ BundleEmpty
  \/ CliSuccess
  \/ CliFailure

CompileSpec == CompileInit /\ [][CompileNext]_vars

----------------------------------------------------------------------------
(* The run on the object store *)

\* the store holding the parsed document and the options before the call
InputHeap == Load(Load(Load(<<>>, DataOf(mdxld)).h, mdxld.context).h, options).h

HeapInit ==
  /\ Untouched
  /\ \E n \in 0..MaxKeys : \E es \in [1..n -> HeapEntries] :
       /\ DistinctKeys(es)
       /\ mdxld = Document(MappingOf(es), <<Str("Article"), O1("vocab", B), Str("t-1")>>)
  /\ options = WorkerOptionsWithRoutes(CallerName, CallerRoutes)
  /\ heap = InputHeap
  /\ roots = [data |-> Load(<<>>, DataOf(mdxld)).v,
              context |-> Load(Load(<<>>, DataOf(mdxld)).h, mdxld.context).v,
              options |-> Load(Load(Load(<<>>, DataOf(mdxld)).h, mdxld.context).h, options).v]

\* line 115
HeapProcessData ==
  /\ pc = "parsed"
  /\ ~IsThrow(HProcessMetadata(heap, roots.data).v)
  /\ heap' = HProcessMetadata(heap, roots.data).h
  /\ resultRef' = HProcessMetadata(heap, roots.data).v
  /\ processedData' = processMetadata(DataOf(mdxld))
  /\ pc' = "processed"
  /\ UNCHANGED <<outer, mdxld, options, metadata, workerContext, error, roots, metadataRef>>

\* line 115 raising, caught at lines 419-422
HeapProcessDataThrows ==
  /\ pc = "parsed"
  /\ IsThrow(HProcessMetadata(heap, roots.data).v)
  /\ heap' = HProcessMetadata(heap, roots.data).h
  /\ thrown' = HProcessMetadata(heap, roots.data).v
  /\ error' = Rejection(HProcessMetadata(heap, roots.data).v)
  /\ pc' = "rejected"
  /\ UNCHANGED <<mdxld, options, processedData, metadata, workerContext, roots,
                 resultRef, metadataRef,
                 input, source, bundle, console, exitCode, compileCalls, invocation, deployed>>

\* lines 117-173
HeapMerge ==
  /\ pc = "processed"
  /\ heap' = HMergeMetadata(heap, resultRef, mdxld.type, roots.context, roots.options).h
  /\ metadataRef' = HMergeMetadata(heap, resultRef, mdxld.type, roots.context, roots.options).v
  /\ metadata' = MergeMetadata(processedData, mdxld, options)
  /\ pc' = "extracted"
  /\ UNCHANGED <<outer, mdxld, options, processedData, workerContext, error, roots, resultRef>>

HeapNext == HeapProcessData \/ HeapProcessDataThrows \/ HeapMerge

HeapSpec == HeapInit /\ [][HeapNext]_vars

----------------------------------------------------------------------------
(* Two invocations of extractWorkerMetadata on one object store, their     *)
(* steps interleaved; the caller of an invocation may change the metadata  *)
(* object it got back.                                                     *)

\* the documents of the two invocations
PairDocuments ==
  { Document(EmptyObj, <<Undefined, Undefined, Undefined>>),
    Document(O1("$worker", O1("name", A)), <<Undefined, Undefined, Undefined>>),
    Document(O1("$worker", O2("name", B, "routes", Arr(<<B>>))),
             <<Str("Article"), O1("vocab", B), Str("t-1")>>),
    Document(O1("@worker", O2("name", A, "config", O1("memory", Num("256")))),
             <<Undefined, Undefined, Undefined>>),
    Document(O1("context", Null), <<Undefined, Undefined, Undefined>>) }

\* the options the invocations are called with
PairOptions == {CliOptions, WorkerOptionsWithRoutes(CallerName, CallerRoutes)}

\* an invocation that has not started: its document, its options and the
\* references to them in the store
Invocation(doc, opts, data, context, optsRef) ==
  [pc |-> "parsed", doc |-> doc, options |-> opts, data |-> data, context |-> context,
   opts |-> optsRef, result |-> Undefined, metadata |-> Undefined]

PairInit ==
  /\ pc = "parsed"
  /\ mdxld = NoDocument
  /\ options = Undefined
  /\ processedData = Undefined
  /\ metadata = Undefined
  /\ workerContext = Undefined
  /\ error = Undefined
  /\ resultRef = Undefined
  /\ metadataRef = Undefined
  /\ input = Undefined
  /\ source = Undefined
  /\ thrown = Undefined
  /\ bundle = Undefined
  /\ console = <<>>
  /\ exitCode = Undefined
  /\ compileCalls = 0
  /\ deployment = <<>>
  /\ disk = <<>>
  /\ roots = [data |-> Undefined, context |-> Undefined, options |-> Undefined]
  /\ \E d1, d2 \in PairDocuments, o \in PairOptions, shared \in BOOLEAN :
       LET data1 == Load(<<>>, DataOf(d1))
           context1 == Load(data1.h, d1.context)
           opts1 == Load(context1.h, o)
           data2 == Load(opts1.h, DataOf(d2))
           context2 == Load(data2.h, d2.context)
           opts2 == IF shared THEN [h |-> context2.h, v |-> opts1.v] ELSE Load(context2.h, o)
       IN  /\ d1 # d2
           /\ heap = opts2.h
           /\ invocation = << Invocation(d1, o, data1.v, context1.v, opts1.v),
                              Invocation(d2, o, data2.v, context2.v, opts2.v) >>

\* line 115, of invocation i
PairProcessData ==
  \E i \in DOMAIN invocation :
    LET r == HProcessMetadata(heap, invocation[i].data)
    IN  /\ invocation[i].pc = "parsed"
        /\ heap' = r.h
        /\ invocation' = [invocation EXCEPT
                            ![i].pc = IF IsThrow(r.v) THEN "rejected" ELSE "processed",
                            ![i].result = r.v]
        /\ UNCHANGED <<shell, deployed, mdxld, options, pc, processedData, metadata, workerContext,
                       error, roots, resultRef, metadataRef>>

\* lines 117-173, of invocation i
PairMerge ==
  \E i \in DOMAIN invocation :
    LET r == HMergeMetadata(heap, invocation[i].result, invocation[i].doc.type,
                            invocation[i].context, invocation[i].opts)
    IN  /\ invocation[i].pc = "processed"
        /\ heap' = r.h
        /\ invocation' = [invocation EXCEPT ![i].pc = "extracted", ![i].metadata = r.v]
        /\ UNCHANGED <<shell, deployed, mdxld, options, pc, processedData, metadata, workerContext,
                       error, roots, resultRef, metadataRef>>

\* arr.push(item)
Push(h, arr, item) == [h EXCEPT ![Addr(h, arr)].c = Append(@, item)]

\* the store after the caller changed the config, the name or the routes of
\* the metadata object m
ChangedBy(h, m, field) ==
  CASE field = "config" -> Write(h, HGet(h, m, "config"), "memory", Num("0"))
    [] field = "env" -> Write(h, HGet(h, HGet(h, m, "config"), "env"), "NODE_ENV", Str("test"))
    [] field = "name" -> Write(h, m, "name", Str("changed"))
    [] field = "routes" -> Push(h, HGet(h, m, "routes"), Str("/changed"))

\* the caller of invocation i changes the metadata it got back
PairChange ==
  \E i \in DOMAIN invocation, field \in {"config", "env", "name", "routes"} :
    /\ invocation[i].pc = "extracted"
    /\ field = "config" => HIsObject(heap, HGet(heap, invocation[i].metadata, "config"))
    /\ field = "env" =>
         HIsObject(heap, HGet(heap, HGet(heap, invocation[i].metadata, "config"), "env"))
    /\ field = "routes" => HIsArray(heap, HGet(heap, invocation[i].metadata, "routes"))
    /\ heap' = ChangedBy(heap, invocation[i].metadata, field)
    /\ invocation' = [invocation EXCEPT ![i].pc = "changed"]
    /\ UNCHANGED <<shell, deployed, mdxld, options, pc, processedData, metadata, workerContext,
                   error, roots, resultRef, metadataRef>>

PairNext == PairProcessData \/ PairMerge \/ PairChange

PairSpec == PairInit /\ [][PairNext]_vars

----------------------------------------------------------------------------
(* deployWrangler, deploy/wrangler.ts lines 26-69: concurrent calls sharing  *)
(* the temporary directory; every await is a point where calls interleave    *)

\* the most calls of deployWrangler in flight
MaxCalls == 2

\* line 32: os.tmpdir()
TmpDir == "/tmp"

\* line 33
WorkerPath(name) == TmpDir \o "/" \o name \o ".js"

\* line 34
ConfigPath == TmpDir \o "/wrangler.toml"

\* line 38: the date new Date() gives when config has no compatibilityDate
Today == "2026-11-02"

\* line 38: config?.compatibilityDate ?? new Date().toISOString().split('T')[0]
CompatibilityDate(config) ==
  IF Get(config, "compatibilityDate").t \in {"undefined", "null"}
    THEN Today
    ELSE Get(config, "compatibilityDate").s

\* line 53
RoutesText(config) ==
  LET routes == Get(config, "routes")
  IN  IF Truthy(routes)
        THEN Join([i \in DOMAIN routes.c |-> "routes = [\"" \o routes.c[i].s \o "\"]"], "\n")
        ELSE ""

\* lines 55-57
VarsText(config) ==
  LET env == Get(config, "env")
  IN  IF Truthy(env)
        THEN "[vars]\n"
               \o Join([i \in DOMAIN env.k |-> env.k[i] \o " = \"" \o env.c[i].s \o "\""], "\n")
        ELSE ""

\* lines 48-58: the text of wrangler.toml
WranglerToml(name, config) ==
  "\nname = \"" \o name \o "\"\nmain = \"" \o WorkerPath(name)
    \o "\"\ncompatibility_date = \"" \o CompatibilityDate(config) \o "\"\n\n"
    \o RoutesText(config) \o "\n\n" \o VarsText(config) \o "\n"

\* the arguments of the calls: <<worker, name, config>>
DeployArguments ==
  { <<"export default {}", "alpha",
      Obj(<<"compatibilityDate", "routes", "env">>,
          <<Str("2024-01-01"), Arr(<<Str("a.dev/*")>>), O1("MODE", Str("dev"))>>)>>,
    <<"addEventListener()", "beta", Undefined>> }

\* what writeFile and execa reject with
DeployErrors == {Throw("EACCES: permission denied"), Str("exit 1")}

\* the files a call writes
Paths == {WorkerPath(args[2]) : args \in DeployArguments} \cup {ConfigPath}

\* a call up to its first await (lines 31-45)
DeployCall(args) ==
  [worker |-> args[1], name |-> args[2], config |-> args[3], pc |-> "writeWorker",
   log |-> <<>>, found |-> <<>>, error |-> Undefined]

\* everything but the calls of deployWrangler and the files
pipeline == <<mdxld, options, pc, processedData, metadata, workerContext, error, store,
              shell, invocation>>

DeployInit ==
  /\ pc = "parsed"
  /\ mdxld = NoDocument
  /\ options = Undefined
  /\ processedData = Undefined
  /\ metadata = Undefined
  /\ workerContext = Undefined
  /\ error = Undefined
  /\ heap = <<>>
  /\ roots = [data |-> Undefined, context |-> Undefined, options |-> Undefined]
  /\ resultRef = Undefined
  /\ metadataRef = Undefined
  /\ input = Undefined
  /\ source = Undefined
  /\ thrown = Undefined
  /\ bundle = Undefined
  /\ console = <<>>
  /\ exitCode = Undefined
  /\ compileCalls = 0
  /\ invocation = <<>>
  /\ \E n \in 1..MaxCalls : \E args \in [1..n -> DeployArguments] :
       deployment = [i \in 1..n |-> DeployCall(args[i])]
  /\ disk = [path \in Paths |-> <<>>]

\* a step of call i is over: what the call awaits next, and the step in its log
Stepped(i, next, ok) ==
  [deployment EXCEPT ![i].pc = next,
                     ![i].log = Append(@, [step |-> deployment[i].pc, ok |-> ok])]

\* line 45: writeFile(workerPath, worker) has written the file
WriteWorkerFile(i) ==
  /\ deployment[i].pc = "writeWorker"
  /\ disk' = [disk EXCEPT ![WorkerPath(deployment[i].name)] = <<deployment[i].worker>>]
  /\ deployment' = Stepped(i, "writeConfig", TRUE)
  /\ UNCHANGED pipeline

\* line 59: writeFile(configPath, wranglerConfig) has written the file
WriteConfigFile(i) ==
  /\ deployment[i].pc = "writeConfig"
  /\ disk' = [disk EXCEPT ![ConfigPath] =
                            <<WranglerToml(deployment[i].name, deployment[i].config)>>]
  /\ deployment' = Stepped(i, "startDeploy", TRUE)
  /\ UNCHANGED pipeline

\* wrangler deploy started before the write of wrangler.toml is over
StartDeployUnordered(i) ==
  /\ deployment[i].pc \in {"writeConfig", "startDeploy"}
  /\ deployment' = [Stepped(i, "exit", TRUE) EXCEPT
                      ![i].log = Append(deployment[i].log, [step |-> "startDeploy", ok |-> TRUE]),
                      ![i].found = disk[ConfigPath]]
  /\ UNCHANGED <<pipeline, disk>>

\* lines 62-65: the continuation after the second write starts wrangler
\* deploy in tmpDir, which finds the wrangler.toml that is on disk then
StartDeploy(i) ==
  /\ deployment[i].pc = "startDeploy"
  /\ deployment' = [Stepped(i, "exit", TRUE) EXCEPT ![i].found = disk[ConfigPath]]
  /\ UNCHANGED <<pipeline, disk>>

\* line 62: wrangler deploy exits with code 0 and the call resolves
DeployExits(i) ==
  /\ deployment[i].pc = "exit"
  /\ deployment' = Stepped(i, "resolved", TRUE)
  /\ UNCHANGED <<pipeline, disk>>

\* line 67: the message of the Error deployWrangler rejects with
DeployRejection(e) == Str("Failed to deploy worker with Wrangler: " \o errorMessage(e))

\* the file a write that failed leaves: as it was, or truncated by the open
WriteFailed(path) == {disk, [disk EXCEPT ![path] = <<"">>]}

\* lines 66-68: the step call i awaits rejects with e (a write fails, wrangler
\* cannot be started or exits with an error) and the call rejects
DeployRejects(i, e) ==
  /\ deployment[i].pc \in {"writeWorker", "writeConfig", "startDeploy", "exit"}
  /\ deployment' = [Stepped(i, "rejected", FALSE) EXCEPT ![i].error = DeployRejection(e)]
  /\ disk' \in CASE deployment[i].pc = "writeWorker" ->
                       WriteFailed(WorkerPath(deployment[i].name))
                  [] deployment[i].pc = "writeConfig" -> WriteFailed(ConfigPath)
                  [] OTHER -> {disk}
  /\ UNCHANGED pipeline

DeployNext ==
  \/ \E i \in DOMAIN deployment : WriteWorkerFile(i)
  \/ \E i \in DOMAIN deployment : WriteConfigFile(i)
  \/ \E i \in DOMAIN deployment : StartDeploy(i)
  \/ \E i \in DOMAIN deployment : DeployExits(i)
  \/ \E i \in DOMAIN deployment, e \in DeployErrors : DeployRejects(i, e)

DeploySpec == DeployInit /\ [][DeployNext]_vars
----------------------------------------------------------------------------
(* Properties *)

Data == DataOf(mdxld)

\* the field names with multi-spelling normalization (spec 4.2, step 3)
SpecialFields == {"type", "id", "context", "list", "vocab", "worker"}

BaseOf(key) == UnprefixedKey(CleanKey(key))

\* C1: idempotence of the normalizer: processing the processed data again
\* yields a mapping deep-equal to the processed data.
C1_Idempotent ==
  pc = "processed" => DeepEq(processMetadata(processedData), processedData)

\* C2: spelling completeness: every special field written with an '@' or '$'
\* prefix in the input is present in the processed data under its three
\* spellings, and the three values are equal.
C2_SpellingComplete ==
  pc = "processed" =>
    \A i \in DOMAIN Data.k :
      (PrefixOf(CleanKey(Data.k[i])) # "" /\ BaseOf(Data.k[i]) \in SpecialFields) =>
        LET f == BaseOf(Data.k[i])
        IN  /\ HasKey(processedData, f)
            /\ HasKey(processedData, "@" \o f)
            /\ HasKey(processedData, "$" \o f)
            /\ DeepEq(Get(processedData, f), Get(processedData, "@" \o f))
            /\ DeepEq(Get(processedData, f), Get(processedData, "$" \o f))
\* the last entry of obj whose clean key is one of keys, 0 when there is none
LastIndex(obj, keys) ==
  LET S == {i \in DOMAIN obj.k : CleanKey(obj.k[i]) \in keys}
  IN  IF S = {} THEN 0 ELSE CHOOSE i \in S : \A j \in S : j <= i

\* no other entry of obj writes the spelling entry i is stored under
Unshadowed(obj, i) ==
  \A j \in DOMAIN obj.k :
    j # i => /\ BaseOf(obj.k[j]) # BaseOf(obj.k[i])
             /\ ~(CleanKey(obj.k[j]) \in WorkerKeys /\ CleanKey(obj.k[i]) \in {"name", "routes"})

\* the worker block of the document that reaches the final metadata: the
\* last '$'/'@'-prefixed worker entry when its value is truthy, else the
\* last worker entry of any spelling when its value is a mapping
AppliedBlock(data) ==
  LET p == LastIndex(data, {"$worker", "@worker"})
      w == LastIndex(data, WorkerKeys)
  IN  IF p # 0 /\ Truthy(data.c[p]) THEN ProcessValue(data.c[p])
      ELSE IF w # 0 /\ Truthy(data.c[w]) /\ TypeofObject(data.c[w]) THEN ProcessValue(data.c[w])
      ELSE Undefined

CallerWorker == Get(options, "worker")

\* C3 as stated: a non-empty caller-supplied name (routes) is the final name
\* (routes) even when a worker block of the document has a different one.
C3_CallerWins ==
  pc = "extracted" =>
    \A i \in DOMAIN Data.k :
      (CleanKey(Data.k[i]) \in WorkerKeys /\ IsObject(Data.c[i])) =>
        /\ ( /\ Truthy(Get(CallerWorker, "name"))
             /\ IsString(Get(Data.c[i], "name"))
             /\ Get(Data.c[i], "name") # Get(CallerWorker, "name") )
             => Get(metadata, "name") = Get(CallerWorker, "name")
        /\ ( /\ IsArray(Get(CallerWorker, "routes")) /\ Len(Get(CallerWorker, "routes").c) > 0
             /\ IsArray(Get(Data.c[i], "routes"))
             /\ Get(Data.c[i], "routes") # Get(CallerWorker, "routes") )
             => Get(metadata, "routes") = Get(CallerWorker, "routes")

\* C3 amended: with a non-empty caller-supplied name, the final name is the
\* name of the document's applied worker block whenever that name is truthy,
\* and the caller's name only otherwise; with caller-supplied routes, the
\* final routes is the block's routes whenever that is a sequence, and the
\* caller's routes only otherwise.
C3_BlockOverridesCaller ==
  pc = "extracted" =>
    /\ Truthy(Get(CallerWorker, "name")) =>
         Get(metadata, "name") =
           IF Truthy(Get(AppliedBlock(Data), "name"))
             THEN StringOf(Get(AppliedBlock(Data), "name"))
             ELSE Get(CallerWorker, "name")
    /\ ( IsArray(Get(CallerWorker, "routes")) /\ Len(Get(CallerWorker, "routes").c) > 0 ) =>
         Get(metadata, "routes") =
           IF IsArray(Get(AppliedBlock(Data), "routes"))
             THEN Get(AppliedBlock(Data), "routes")
             ELSE Get(CallerWorker, "routes")

\* a caller-supplied name and routes lost to the worker block of the document
C3_Witness ==
  /\ pc = "extracted"
  /\ Get(CallerWorker, "name") = CallerName
  /\ Get(CallerWorker, "routes") = CallerRoutes
  /\ Data = O1("$worker", O2("name", B, "routes", Arr(<<B>>)))
  /\ Get(metadata, "name") = B
  /\ Get(metadata, "routes") = Arr(<<B>>)

ContextName == Get(Get(workerContext, "metadata"), "name")

ContextRoutes == Get(Get(workerContext, "metadata"), "routes")

\* C4 as stated: a $worker block with a name (and a routes sequence) in the
\* frontmatter gives the worker context that name (and those routes) when the
\* options carry a different non-empty name.
C4_DollarWorkerSeeds ==
  pc = "context" =>
    \A i \in DOMAIN Data.k :
      ( /\ CleanKey(Data.k[i]) = "$worker"
        /\ IsObject(Data.c[i])
        /\ IsString(Get(Data.c[i], "name")) /\ Get(Data.c[i], "name").s # ""
        /\ Truthy(Get(CallerWorker, "name"))
        /\ Get(CallerWorker, "name") # Get(Data.c[i], "name") ) =>
          /\ ContextName = Get(Data.c[i], "name")
          /\ IsArray(Get(Data.c[i], "routes")) => ContextRoutes = Get(Data.c[i], "routes")

\* C4 amended: the same, for a $worker block that is the last '$'/'@'-prefixed
\* worker key of the frontmatter and whose normalized name is a non-empty
\* string.
C4_LastDollarWorkerSeeds ==
  pc = "context" =>
    \A i \in DOMAIN Data.k :
      ( /\ CleanKey(Data.k[i]) = "$worker"
        /\ i = LastIndex(Data, {"$worker", "@worker"})
        /\ IsObject(Data.c[i])
        /\ IsString(Get(ProcessValue(Data.c[i]), "name"))
        /\ Get(ProcessValue(Data.c[i]), "name").s # ""
        /\ Truthy(Get(CallerWorker, "name"))
        /\ Get(CallerWorker, "name") # Get(ProcessValue(Data.c[i]), "name") ) =>
          /\ ContextName = Get(ProcessValue(Data.c[i]), "name")
          /\ IsArray(Get(ProcessValue(Data.c[i]), "routes")) =>
               ContextRoutes = Get(ProcessValue(Data.c[i]), "routes")

\* the worker context of a document whose $worker block follows an @worker block
C4_Witness ==
  /\ pc = "context"
  /\ Get(CallerWorker, "name") = CallerName
  /\ Data = O2("@worker", O1("routes", A), "$worker", O2("name", B, "routes", Arr(<<B>>)))
  /\ ContextName = B
  /\ ContextRoutes = Arr(<<B>>)
ScalarTypes == {"string", "number", "boolean", "null"}

\* entry i of obj is a special field of malformed shape: a context that is a
\* number, null, boolean or sequence, or a worker that is a scalar or null
Malformed(obj, i) ==
  \/ BaseOf(obj.k[i]) = "context" /\ obj.c[i].t \in {"number", "null", "boolean", "array"}
  \/ BaseOf(obj.k[i]) = "worker" /\ obj.c[i].t \in ScalarTypes

\* C6: processMetadata never raises, and a special field of malformed shape
\* is passed through as it is, without special-field rewriting.
C6_NeverRaises ==
  /\ pc # "rejected"
  /\ pc = "processed" =>
       \A i \in DOMAIN Data.k :
         (Malformed(Data, i) /\ Unshadowed(Data, i)) =>
           Get(processedData, BaseOf(Data.k[i])) = Data.c[i]

RECURSIVE SeqImage(_, _)
\* out holds, for every sequence of in, a sequence of the same length with
\* the image of each element at the same index
SeqImage(in, out) ==
  CASE in.t = "array" ->
         /\ out.t = "array"
         /\ Len(out.c) = Len(in.c)
         /\ \A i \in DOMAIN in.c : SeqImage(in.c[i], out.c[i])
    [] in.t = "object" ->
         /\ out.t = "object"
         /\ \A i \in DOMAIN in.k :
              (Unshadowed(in, i) /\ in.c[i].t \in {"array", "object"}) =>
                SeqImage(in.c[i], Get(out, CleanKey(in.k[i])))
    [] OTHER -> out = in

\* C7: order preservation: every sequence of the input, at any depth, has as
\* its output a sequence of the same length holding the image of each element
\* at the same index; no sequence becomes a keyed mapping.
C7_OrderPreserved ==
  pc = "processed" => SeqImage(Data, processedData)

\* the value entry r of a mapping gets no further rewriting: its base name
\* has one spelling in the mapping and is none of context and list
Ordinary(obj, r) ==
  Unshadowed(obj, r) /\ BaseOf(obj.k[r]) \notin {"context", "list"}

\* C8 as stated: a context mapping of the input with the unprefixed key vocab
\* yields an output context that holds that value under '@vocab', has no key
\* 'vocab', and has every other key with its original value.
C8_VocabRewrite ==
  pc = "processed" =>
    \A i \in DOMAIN Data.k :
      (CleanKey(Data.k[i]) \in ContextKeys /\ IsObject(Data.c[i]) /\ HasKey(Data.c[i], "vocab")) =>
        LET ctx == Data.c[i]
            out == Get(processedData, "context")
        IN  /\ IsObject(out)
            /\ Get(out, "@vocab") = Get(ctx, "vocab")
            /\ ~HasKey(out, "vocab")
            /\ \A r \in DOMAIN ctx.k :
                 ctx.k[r] # "vocab" => Get(out, ctx.k[r]) = ctx.c[r]

\* C8 amended: when the last context-spelled key of the input holds a
\* mapping whose only vocab-spelled key is the unprefixed vocab, the output
\* context holds the normalized value of vocab under '@vocab', has no key
\* 'vocab', and contains every other key of that mapping, with the normalized
\* value for every key that is the only spelling of its base name and is not
\* specially handled itself.
C8_VocabRewriteUnshadowed ==
  pc = "processed" =>
    \A i \in DOMAIN Data.k :
      ( /\ i = LastIndex(Data, ContextKeys)
        /\ IsObject(Data.c[i])
        /\ LastIndex(Data.c[i], {"vocab"}) # 0
        /\ Unshadowed(Data.c[i], LastIndex(Data.c[i], {"vocab"})) ) =>
        LET ctx == Data.c[i]
            q == LastIndex(ctx, {"vocab"})
            out == Get(processedData, "context")
        IN  /\ IsObject(out)
            /\ DeepEq(Get(out, "@vocab"), ProcessValue(ctx.c[q]))
            /\ ~HasKey(out, "vocab")
            /\ \A r \in DOMAIN ctx.k :
                 r # q =>
                   /\ HasKey(out, CleanKey(ctx.k[r]))
                   /\ Ordinary(ctx, r) =>
                        DeepEq(Get(out, CleanKey(ctx.k[r])), ProcessValue(ctx.c[r]))

\* the processed data of { $context: { vocab: a, dc: b } }
C8_Witness ==
  /\ pc = "processed"
  /\ Data = O1("$context", O2("vocab", A, "dc", B))
  /\ Get(processedData, "context") = O2("@vocab", A, "dc", B)

ContextConfig == Get(Get(workerContext, "metadata"), "config")

\* the config mappings the document supplies: under a top-level config key
\* and under the config key of a worker block
SuppliedConfigs ==
  {ProcessValue(Data.c[i]) : i \in {j \in DOMAIN Data.k : BaseOf(Data.k[j]) = "config"}}
    \cup {Get(ProcessValue(Data.c[i]), "config") :
            i \in {j \in DOMAIN Data.k : BaseOf(Data.k[j]) = "worker"}}

\* C9: the config of the worker context is a mapping with the keys memory
\* and env; memory is 128 and env is {NODE_ENV: 'production'} unless a config
\* of the document supplies another value for that key.
C9_ConfigDefaults ==
  pc = "context" =>
    /\ IsObject(ContextConfig)
    /\ HasKey(ContextConfig, "memory")
    /\ HasKey(ContextConfig, "env")
    /\ \/ Get(ContextConfig, "memory") = Num("128")
       \/ \E cfg \in SuppliedConfigs :
            HasKey(cfg, "memory") /\ Get(cfg, "memory") = Get(ContextConfig, "memory")
    /\ \/ Get(ContextConfig, "env") = DefaultEnv
       \/ \E cfg \in SuppliedConfigs :
            HasKey(cfg, "env") /\ Get(cfg, "env") = Get(ContextConfig, "env")

\* the worker context of a document whose config has a memory and no env
C9_Witness ==
  /\ pc = "context"
  /\ Data = O1("config", O1("memory", Num("512")))
  /\ ContextConfig = O2("memory", Num("512"), "env", DefaultEnv)

\* something supplies a name / routes: the options, or a name, routes or
\* worker key of the document
Supplied(field) ==
  \/ HasKey(CallerWorker, field)
  \/ \E i \in DOMAIN Data.k : BaseOf(Data.k[i]) \in {field, "worker"}

\* C10: the final name is a string and the final routes is a sequence; name
\* is '' and routes is [] when nothing supplies them.
C10_NameRoutesShape ==
  pc = "extracted" =>
    /\ IsString(Get(metadata, "name"))
    /\ IsArray(Get(metadata, "routes"))
    /\ ~Supplied("name") => Get(metadata, "name") = Str("")
    /\ ~Supplied("routes") => Get(metadata, "routes") = Arr(<<>>)
\* the run on the object store computes what the run on values computes
HeapAgrees ==
  /\ pc = "processed" => Reify(heap, resultRef) = processedData
  /\ pc = "extracted" => Reify(heap, metadataRef) = metadata
  /\ pc = "rejected" => IsThrow(processMetadata(Data))

\* C5: non-mutation: after processMetadata and extractWorkerMetadata have
\* run (or raised), every mapping and sequence of the input document and of
\* the options is as it was before the call; the writes went to new nodes.
C5_InputUnchanged ==
  pc \in {"processed", "extracted", "rejected"} =>
    /\ Len(heap) >= Len(InputHeap)
    /\ \A i \in DOMAIN InputHeap : heap[i] = InputHeap[i]

\* a document with nested mappings and sequences has been processed and
\* merged, with the results written to nodes allocated by the call
C5_Witness ==
  /\ pc = "extracted"
  /\ Data = O2("$worker", O2("name", B, "routes", Arr(<<B>>)),
               "@worker", O2("name", A, "config", O1("memory", Num("256"))))
  /\ Len(heap) > Len(InputHeap)
  /\ Addr(heap, metadataRef) > Len(InputHeap)
  /\ Get(metadata, "name") = A

\* the well-known fields of a parsed document (types/index.ts, MDXLD)
TypedFields ==
  {"type", "id", "context", "language", "base", "vocab", "list", "set", "reverse"}

\* the typed attribute the parser surfaced for a field; the documents
\* exercised here carry type, context and id only
TypedAttribute(doc, f) ==
  IF f = "type" THEN doc.type
  ELSE IF f = "context" THEN doc.context
  ELSE IF f = "id" THEN doc.id
  ELSE Undefined

\* the normalized value of the frontmatter entry written with exactly this spelling
NormalizedSpelling(data, key) ==
  LET i == LastIndex(data, {key})
  IN  IF i = 0 THEN Undefined ELSE ProcessValue(data.c[i])

\* the first value of vals that is not undefined
FirstDefined(vals) ==
  LET S == {i \in DOMAIN vals : vals[i] # Undefined}
  IN  IF S = {} THEN Undefined ELSE vals[CHOOSE i \in S : \A j \in S : i <= j]

\* the resolved value of a field by the priority order typed, '$', '@', unprefixed
Resolved(f) ==
  FirstDefined(<<TypedAttribute(mdxld, f), NormalizedSpelling(Data, "$" \o f),
                 NormalizedSpelling(Data, "@" \o f), NormalizedSpelling(Data, f)>>)

\* C11: typed-attribute priority: the value of every well-known field in the
\* final metadata is the first non-undefined of the typed attribute, the
\* normalized '$' spelling, the normalized '@' spelling and the normalized
\* unprefixed spelling.
C11_TypedPriority ==
  pc = "extracted" =>
    \A f \in TypedFields :
      Resolved(f) # Undefined => DeepEq(Get(metadata, f), Resolved(f))

\* C12: write-back: every well-known field that resolves to a value is held by
\* the final metadata under the unprefixed, the '@' and the '$' key, with the
\* resolved value under each.
C12_WriteBack ==
  pc = "extracted" =>
    \A f \in TypedFields :
      Resolved(f) # Undefined =>
        \A key \in {f, "@" \o f, "$" \o f} :
          HasKey(metadata, key) /\ DeepEq(Get(metadata, key), Resolved(f))

\* C16: an unprefixed key that is no well-known field (title), written next
\* to '$'-prefixed keys (kept in the data or surfaced by the parser as a typed
\* attribute), has no entry in the metadata of the worker context.
C16_OrdinaryNotSurfaced ==
  ( /\ pc = "context"
    /\ HasKey(Data, "title")
    /\ \/ \E j \in DOMAIN Data.k : PrefixOf(CleanKey(Data.k[j])) = "$"
       \/ Truthy(mdxld.type) )
  => ~HasKey(Get(workerContext, "metadata"), "title")

\* the three spellings of a base name (spec 4.1, spellings)
Spellings(base) == {base, "@" \o base, "$" \o base}

\* the input mapping itself has an entry of this spelling
WrittenIn(obj, key) == \E j \in DOMAIN obj.k : CleanKey(obj.k[j]) = key

\* a worker entry of obj hoists this key into the result (lines 99-103)
Hoisted(obj, key) ==
  /\ key \in {"name", "routes"}
  /\ \E j \in DOMAIN obj.k : CleanKey(obj.k[j]) \in WorkerKeys

\* C19: ordinary prefixed keys are not multiplied: for an input key with an
\* '@' or '$' prefix whose base name is no special field, the processed data
\* holds the unprefixed or the other-prefix spelling only when the input
\* itself had it.
C19_OrdinaryNotMultiplied ==
  pc = "processed" =>
    \A i \in DOMAIN Data.k :
      (PrefixOf(CleanKey(Data.k[i])) # "" /\ BaseOf(Data.k[i]) \notin SpecialFields) =>
        \A key \in Spellings(BaseOf(Data.k[i])) \ {CleanKey(Data.k[i])} :
          HasKey(processedData, key) => (WrittenIn(Data, key) \/ Hoisted(Data, key))

\* the mapping-valued context entry of the input that produces the context of
\* the processed data: its last context entry, 0 when that is no mapping
ContextSource(data) ==
  LET i == LastIndex(data, ContextKeys)
  IN  IF i # 0 /\ IsObject(data.c[i]) THEN i ELSE 0

\* C20: in the context mapping of the processed data a source key vocab,
\* @vocab or $vocab appears as '@vocab' only, and every other source key
\* appears under its original spelling, without copies under other spellings.
C20_ContextRewrite ==
  (pc = "processed" /\ ContextSource(Data) # 0) =>
    LET src == Data.c[ContextSource(Data)]
        out == Get(processedData, "context")
    IN  \A i \in DOMAIN src.k :
          IF BaseOf(src.k[i]) = "vocab"
          THEN /\ HasKey(out, "@vocab")
               /\ ~HasKey(out, "vocab")
               /\ ~HasKey(out, "$vocab")
          ELSE /\ HasKey(out, CleanKey(src.k[i]))
               /\ \A key \in Spellings(BaseOf(src.k[i])) \ {CleanKey(src.k[i])} :
                    HasKey(out, key) => WrittenIn(src, key)

\* the entries of a mapping whose value is found again, as processed, under
\* the entry's clean key: no other entry writes the key, and the key is not
\* one the context or list handling replaces
KeptEntries(obj) ==
  {i \in DOMAIN obj.k : Unshadowed(obj, i) /\ BaseOf(obj.k[i]) \notin {"context", "list"}}

RECURSIVE AppliedAtDepth(_, _)
\* out is what the rules of the top level make of in, at this and every
\* deeper level: a scalar is unchanged; a sequence keeps its length and every
\* element is treated so; a mapping is what processMetadata makes of it, holds
\* a prefixed entry under its three spellings, and its values are treated so
AppliedAtDepth(in, out) ==
  IF IsArray(in)
    THEN /\ IsArray(out)
         /\ Len(out.c) = Len(in.c)
         /\ \A i \in DOMAIN in.c : AppliedAtDepth(in.c[i], out.c[i])
  ELSE IF IsObject(in)
    THEN /\ IsObject(out)
         /\ DeepEq(out, processMetadata(in))
         /\ \A i \in KeptEntries(in) :
              /\ HasKey(out, CleanKey(in.k[i]))
              /\ AppliedAtDepth(in.c[i], Get(out, CleanKey(in.k[i])))
              /\ PrefixOf(CleanKey(in.k[i])) # "" =>
                   \A key \in Spellings(BaseOf(in.k[i])) :
                     HasKey(out, key) /\ Get(out, key) = Get(out, CleanKey(in.k[i]))
  ELSE out = in

CauseMessage == IF IsThrow(thrown) THEN thrown.s ELSE StringOf(thrown).s

\* C14: all-or-nothing error reporting: a call of compile that has ended has
\* either resolved with the bundle text and no error, or rejected with the one
\* message 'Failed to compile MDXLD worker: ' followed by the message of the
\* cause (from the preprocessing, the parser, the metadata extraction or the
\* bundler) and no bundle; a call that has not ended has yielded neither.
C14_AllOrNothing ==
  /\ pc \in {"resolved", "done"} =>
       bundle = BundleText /\ error = Undefined /\ thrown = Undefined
  /\ pc \in {"rejected", "exited"} =>
       /\ bundle = Undefined
       /\ thrown # Undefined
       /\ error = Str("Failed to compile MDXLD worker: " \o CauseMessage)
  /\ pc \notin {"resolved", "done", "rejected", "exited"} =>
       bundle = Undefined /\ error = Undefined

\* compile has rejected after the worker context was built: the bundler
\* yielded no output file
C14_Witness ==
  /\ pc = "rejected"
  /\ workerContext # Undefined
  /\ thrown = Throw("Failed to generate worker bundle")
  /\ error = Str("Failed to compile MDXLD worker: Failed to generate worker bundle")

\* C15: body pass-through: the content of the worker context is exactly the
\* body text of the original source: the text after its frontmatter block,
\* the whole text when it has none.
C15_BodyPassThrough ==
  pc = "context" => Get(workerContext, "content") = Str(BodyOf(source.s))

SuccessLogged ==
  \E i \in DOMAIN console :
    console[i] = Logged("log", <<Str("Compilation completed successfully")>>)

\* C18: ordering of the compile command: compile is called at most once, with
\* the input argument; the success message is logged only when that call has
\* resolved; when the call rejected, the error is written with console.error,
\* the exit code is 1 and the success message is not logged.
C18_CliOrdering ==
  input # Undefined =>
    /\ compileCalls <= 1
    /\ compileCalls = 1 => source = input
    /\ pc # "cli" => compileCalls = 1
    /\ SuccessLogged =>
         /\ pc = "done"
         /\ bundle = BundleText
         /\ error = Undefined
         /\ exitCode = Undefined
         /\ console = <<Logged("log", <<Str("Compilation completed successfully")>>)>>
    /\ pc = "done" => SuccessLogged
    /\ error # Undefined => ~SuccessLogged
    /\ exitCode # Undefined => pc = "exited"
    /\ pc = "exited" =>
         /\ error # Undefined
         /\ exitCode = Num("1")
         /\ console = <<Logged("error", <<Str("Compilation failed:"), error>>)>>

\* the command has exited with code 1 after compile rejected
C18_Witness ==
  /\ pc = "exited"
  /\ input # Undefined
  /\ compileCalls = 1
  /\ exitCode = Num("1")
  /\ Len(console) = 1
  /\ console[1].stream = "error"

\* what invocation i returns when it runs alone
Alone(i) ==
  MergeMetadata(processMetadata(DataOf(invocation[i].doc)), invocation[i].doc,
                invocation[i].options)

\* C13: no shared state between invocations: whatever the interleaving of two
\* invocations on different documents, and whatever the caller of the other
\* invocation did to the config, name or routes of its result, the
\* processed data and the metadata of an invocation are those of the
\* invocation running alone.
C13_Independent ==
  \A i \in DOMAIN invocation :
    /\ invocation[i].pc = "processed" =>
         Reify(heap, invocation[i].result) = processMetadata(DataOf(invocation[i].doc))
    /\ invocation[i].pc = "rejected" =>
         IsThrow(processMetadata(DataOf(invocation[i].doc)))
    /\ invocation[i].pc = "extracted" =>
         Reify(heap, invocation[i].metadata) = Alone(i)

\* the routes of the metadata of invocation i are the routes array of the
\* options object, and the other invocation was given that same object
SharesCallerRoutes(i) ==
  /\ \E j \in DOMAIN invocation : j # i /\ invocation[j].opts = invocation[i].opts
  /\ IsRef(HGet(heap, invocation[i].metadata, "routes"))
  /\ HGet(heap, invocation[i].metadata, "routes")
       = HGet(heap, HGet(heap, invocation[i].opts, "worker"), "routes")

\* C13 as amended: the processed data and the metadata of an invocation are
\* those of the invocation running alone, whatever the interleaving and
\* whatever the other caller changed in its result, except for the routes
\* when both invocations were given one options object and the routes of the
\* result are that object's routes array; the config, its env and the name
\* are never shared.
C13_IndependentButCallerRoutes ==
  \A i \in DOMAIN invocation :
    /\ invocation[i].pc = "processed" =>
         Reify(heap, invocation[i].result) = processMetadata(DataOf(invocation[i].doc))
    /\ invocation[i].pc = "rejected" =>
         IsThrow(processMetadata(DataOf(invocation[i].doc)))
    /\ invocation[i].pc = "extracted" =>
         IF SharesCallerRoutes(i)
           THEN SetProp(Reify(heap, invocation[i].metadata), "routes", Null)
                  = SetProp(Alone(i), "routes", Null)
           ELSE Reify(heap, invocation[i].metadata) = Alone(i)

\* both invocations returned metadata with the default config, the caller of
\* the first changed the config of its result, and the second result still
\* has the default config
C13_Witness ==
  /\ Len(invocation) = 2
  /\ invocation[1].pc = "changed"
  /\ invocation[2].pc = "extracted"
  /\ Get(Alone(1), "config") = DefaultConfig
  /\ Get(Reify(heap, invocation[1].metadata), "config") # DefaultConfig
  /\ Get(Reify(heap, invocation[2].metadata), "config") = DefaultConfig

\* C21: the context of the final metadata, when there is one, is a string or
\* a mapping that has neither the key vocab nor the key $vocab, whether it
\* comes from the frontmatter data or from the parser's typed context.
C21_ContextCanonical ==
  (pc = "extracted" /\ HasKey(metadata, "context")) =>
    LET context == Get(metadata, "context")
    IN  \/ IsString(context)
        \/ IsObject(context) /\ ~HasKey(context, "vocab") /\ ~HasKey(context, "$vocab")

\* the first n entries of a mapping
FirstEntries(obj, n) == Obj(SubSeq(obj.k, 1, n), SubSeq(obj.c, 1, n))

\* the result of processMetadata's loop once the first n entries are processed
ResultAfter(obj, n) == ProcessEntries(EmptyObj, FirstEntries(obj, n), 1)

\* the entry of a mapping under this key: whether there is one, and its value
Entry(obj, key) == <<HasKey(obj, key), Get(obj, key)>>

\* C22: guarded worker hoisting: processing a worker, @worker or $worker key
\* whose normalized value is a mapping changes the enclosing result's name
\* only when the block's name is a string, and then to that name, and its
\* routes only when the block's routes is a sequence, and then to that
\* sequence; otherwise the name and routes stored so far stay as they are.
C22_GuardedHoist ==
  pc = "processed" =>
    \A i \in DOMAIN Data.k :
      (CleanKey(Data.k[i]) \in WorkerKeys /\ IsObject(ProcessValue(Data.c[i]))) =>
        LET block == ProcessValue(Data.c[i])
            before == ResultAfter(Data, i - 1)
            after == ResultAfter(Data, i)
        IN  /\ IF IsString(Get(block, "name"))
                 THEN Entry(after, "name") \in {Entry(before, "name"), <<TRUE, Get(block, "name")>>}
                 ELSE Entry(after, "name") = Entry(before, "name")
            /\ IF IsArray(Get(block, "routes"))
                 THEN Entry(after, "routes") = <<TRUE, Get(block, "routes")>>
                 ELSE Entry(after, "routes") = Entry(before, "routes")

\* the value of the last list, @list or $list entry of the input
ListSource(data) == data.c[LastIndex(data, ListKeys)]

\* C23: list wrapping: when the input has a list, @list or $list key, the
\* list of the output is a sequence; an input sequence is kept element for
\* element (same length, each element the normalized input element, scalars
\* as they are), and any other value becomes the one-element sequence
\* holding its normalized form.
C23_ListWrapped ==
  (pc = "processed" /\ LastIndex(Data, ListKeys) # 0) =>
    LET in == ListSource(Data)
        list == Get(processedData, "list")
    IN  /\ IsArray(list)
        /\ IF IsArray(in)
             THEN /\ Len(list.c) = Len(in.c)
                  /\ \A j \in DOMAIN in.c :
                       IF TypeofObject(in.c[j])
                         THEN DeepEq(list.c[j], ProcessValue(in.c[j]))
                         ELSE list.c[j] = in.c[j]
             ELSE /\ Len(list.c) = 1
                  /\ IF TypeofObject(in)
                       THEN DeepEq(list.c[1], ProcessValue(in))
                       ELSE list.c[1] = in

\* a sequence is kept unnested next to a scalar that is wrapped
C23_Witness ==
  /\ pc = "processed"
  /\ Data = O2("list", Arr(<<A, B>>), "$list", A)
  /\ Get(processedData, "list") = Arr(<<A>>)
  /\ Get(processedData, "$list") = A

\* the config of the worker block that reaches the final metadata, an empty
\* mapping when the block has no config or one that is no object
AppliedConfig(data) ==
  LET config == Get(AppliedBlock(data), "config")
  IN  IF Truthy(config) /\ TypeofObject(config) THEN config ELSE EmptyObj

\* C24: the config of the worker context is the built-in defaults
\* overlaid key by key with the config of the document's worker block; a
\* supplied env is the final env as a whole, and the default memory and env
\* remain when the block's config has other keys only.
C24_ShallowConfig ==
  pc = "context" => ContextConfig = Spread(DefaultConfig, AppliedConfig(Data))

\* the worker entries of a mapping, under any spelling
WorkerEntries(data) == {i \in DOMAIN data.k : CleanKey(data.k[i]) \in WorkerKeys}

\* the document with the key of entry i of its data written as key
Respelled(doc, i, key) == [doc EXCEPT !.data.k[i] = key]

\* the fields of the final metadata a worker block contributes to
BlockFields == {"name", "routes", "config", "worker"}

\* C25: a document's worker block (its only worker entry, a mapping) gives
\* the final metadata its name (as a string) when it has a non-empty one, its
\* routes when they are a sequence and every entry of its config, over the
\* defaults, the generic metadata, the typed attributes and the caller's
\* options; the block itself is the final metadata's worker; and the final
\* name, routes, config and worker are the same whether the block is written
\* as worker, @worker or $worker.
C25_AnySpelling ==
  pc = "extracted" =>
    \A i \in WorkerEntries(Data) :
      (WorkerEntries(Data) = {i} /\ IsObject(Data.c[i])) =>
        LET block == ProcessValue(Data.c[i])
        IN  /\ Truthy(Get(block, "name")) =>
                 Get(metadata, "name") = StringOf(Get(block, "name"))
            /\ IsArray(Get(block, "routes")) =>
                 Get(metadata, "routes") = Get(block, "routes")
            /\ IsObject(Get(block, "config")) =>
                 \A j \in DOMAIN Get(block, "config").k :
                   Get(Get(metadata, "config"), Get(block, "config").k[j])
                     = Get(block, "config").c[j]
            /\ Get(metadata, "worker") = block
            /\ \A key \in WorkerKeys \ {CleanKey(Data.k[i])} :
                 LET other == extractWorkerMetadata(Respelled(mdxld, i, key), options)
                 IN  \A f \in BlockFields : Get(other, f) = Get(metadata, f)

\* an unprefixed worker block overrides the caller's name and a generic name
C25_Witness ==
  /\ pc = "extracted"
  /\ Data = O2("worker", O1("name", A), "name", B)
  /\ options = WorkerOptions(CallerName)
  /\ Get(metadata, "name") = A
  /\ Get(metadata, "worker") = O1("name", A)

\* what processMetadata's loop stores for each entry of a mapping taken alone
Singles(data) ==
  [i \in DOMAIN data.k |-> ProcessEntries(EmptyObj, Obj(<<data.k[i]>>, <<data.c[i]>>), 1)]

\* the entries, of those stored alone as singles, that write the output spelling key
Writers(singles, key) == {i \in DOMAIN singles : HasKey(singles[i], key)}

\* the last of a non-empty set of entries
Last(S) == CHOOSE i \in S : \A j \in S : j <= i

\* C26: collisions resolve by the input's iteration order: every spelling of
\* the output is written by some input key, and it ends with the value that
\* the last input key writing it stores ($type: A followed by @type: B gives
\* B under type, @type and $type).
C26_LastWriterWins ==
  pc = "processed" =>
    LET singles == Singles(Data)
    IN  /\ \A i \in DOMAIN singles :
             \A j \in DOMAIN singles[i].k : HasKey(processedData, singles[i].k[j])
        /\ \A j \in DOMAIN processedData.k :
             LET key == processedData.k[j]
             IN  /\ Writers(singles, key) # {}
                 /\ processedData.c[j] = Get(singles[Last(Writers(singles, key))], key)

\* $type: A followed by @type: B
C26_Witness ==
  /\ pc = "processed"
  /\ Data = O2("$type", A, "@type", B)
  /\ \A key \in Spellings("type") : Get(processedData, key) = B

\* the key without one layer of surrounding quote characters: the text
\* between the first and the last character when both are the same quote
Unquoted(key) ==
  IF Len(key) >= 2 /\ FirstChar(key) \in Quotes /\ LastChar(key) = FirstChar(key)
    THEN SubSeq(key, 2, Len(key) - 1)
    ELSE key

\* the prefix and base the key model assigns to a key (spec 4.1, classify)
Classified(key) ==
  IF FirstChar(Unquoted(key)) \in {"@", "$"}
    THEN [prefix |-> FirstChar(Unquoted(key)),
          base |-> SubSeq(Unquoted(key), 2, Len(Unquoted(key)))]
    ELSE [prefix |-> "", base |-> Unquoted(key)]

\* the keys processMetadata stores a value under for a key so classified
StoredFor(class) ==
  IF class.prefix = "" THEN {class.base} ELSE Spellings(class.base)

\* C27: key classification: every key is classified, one layer of surrounding
\* quotes being stripped first: a key whose unquoted form starts with '@' or
\* '$' has that prefix and the remainder as base and is stored under the
\* three spellings of the base; any other key has no prefix and is stored
\* under its unquoted form only.
C27_Classification ==
  (pc = "processed" /\ Len(Data.k) = 1) =>
    Range(processedData.k) = StoredFor(Classified(Data.k[1]))

\* the steps of deployWrangler in the order of the code
DeploySteps == <<"writeWorker", "writeConfig", "startDeploy", "exit">>

DeployFailure == "Failed to deploy worker with Wrangler: "

\* C28: every call of deployWrangler takes its steps in the order worker
\* file, wrangler.toml, start of wrangler deploy, exit of wrangler deploy; a
\* step is taken only after every earlier step succeeded, so nothing follows
\* a failed step; the call rejects exactly when a step failed, with an Error
\* whose message starts with 'Failed to deploy worker with Wrangler: ', and
\* resolves only after all four steps succeeded.
C28_DeployOrder ==
  \A i \in DOMAIN deployment :
    LET call == deployment[i]
    IN  /\ Len(call.log) <= Len(DeploySteps)
        /\ \A j \in DOMAIN call.log :
             /\ call.log[j].step = DeploySteps[j]
             /\ j < Len(call.log) => call.log[j].ok
        /\ call.pc = "rejected" <=> (call.log # <<>> /\ ~call.log[Len(call.log)].ok)
        /\ call.pc = "rejected" =>
             /\ IsString(call.error)
             /\ StartsWith(call.error.s, DeployFailure)
             /\ Len(call.error.s) > Len(DeployFailure)
        /\ call.pc = "resolved" <=>
             (Len(call.log) = Len(DeploySteps) /\ \A j \in DOMAIN call.log : call.log[j].ok)
        /\ call.pc \notin {"rejected", "resolved"} =>
             (call.pc = DeploySteps[Len(call.log) + 1] /\ call.error = Undefined)

\* the write of wrangler.toml failed after the worker file was written: no
\* deploy was started and the call rejected
C28_Witness ==
  \E i \in DOMAIN deployment :
    /\ deployment[i].pc = "rejected"
    /\ deployment[i].log = << [step |-> "writeWorker", ok |-> TRUE],
                              [step |-> "writeConfig", ok |-> FALSE] >>
    /\ deployment[i].found = <<>>
    /\ deployment[i].error = Str(DeployFailure \o "EACCES: permission denied")
    /\ disk[WorkerPath(deployment[i].name)] = <<deployment[i].worker>>

\* C29: concurrent calls for different worker names are isolated: the
\* wrangler.toml on disk when a call starts wrangler deploy is the one that
\* call wrote, with its own name and main path.
C29_DeployIsolated ==
  (\A i, j \in DOMAIN deployment : i # j => deployment[i].name # deployment[j].name) =>
    \A i \in DOMAIN deployment :
      (\E j \in DOMAIN deployment[i].log : deployment[i].log[j].step = "startDeploy"
                                            /\ deployment[i].log[j].ok) =>
        deployment[i].found = <<WranglerToml(deployment[i].name, deployment[i].config)>>

\* the source from its first fence '---\n' on, empty when it has none
FromFirstFence(text) ==
  IF Includes(text, "---\n") THEN SliceFrom(text, indexOf(text, "---\n")) ELSE ""

\* C30: preprocessYaml is the identity on every source that begins with the
\* fence '---\n', so the parser is handed the original text; on any source
\* it rewrites at most the text before the first '---\n': what it returns
\* ends with the source from its first fence on, and is the source itself
\* when there is no fence.
C30_FencedIdentity ==
  IsString(source) =>
    LET out == preprocessYaml(source.s)
    IN  /\ StartsWith(source.s, "---\n") => out = source
        /\ ~Includes(source.s, "---\n") => out = source
        /\ ~IsThrow(out) => EndsWith(out.s, FromFirstFence(source.s))

\* a fenced source whose frontmatter line would be quoted if it were rewritten
C30_Witness ==
  /\ pc = "parsed"
  /\ source = Str("---\nNote: a b\n---\n")
  /\ preprocessYaml(source.s) = source
  /\ mdxld.content = ""
  /\ preprocessYaml("Note: a b\n---\n") = Str("Note: \"a b\"\n---\n")

====
